---- MODULE Spec2Model ----
(***************************************************************************)
(* State-machine model of the message pipeline of ao-agent:                *)
(*   - ChatController (backend/src/controllers/chatController.ts): the     *)
(*     request handlers createChat, createAnonymousChat, sendMessage,      *)
(*     sendAnonymousMessage, sendMessageStream, sendAnonymousMessageStream *)
(*   - GeminiService (the LLM gateway): switchModel, initialize,           *)
(*     sendMessageWithRetry, sendMessageStream                             *)
(*                                                                         *)
(*   - the gateway's complete() (sendMessage / sendMessageWithRetry), the  *)
(*     tool invocation loop (processWithMCPIntegration,                    *)
(*     executeToolCallsAndRespond, retryWithLLMCorrection), the cleanup    *)
(*     timer of the ephemeral chat registry, and two requests in flight    *)
(*     together, each followed in a specification of its own               *)
(*                                                                         *)
(* Atomicity follows the Node.js event loop: the code between two awaits   *)
(* runs without interleaving.  One action is one such block; an awaited    *)
(* database operation executes at the beginning of the action that models  *)
(* the code resuming after it.  Handlers of different requests interleave  *)
(* at the awaits only.  The gateway is assumed to have its API key         *)
(* configured (initialize() does not throw).                               *)
(***************************************************************************)
EXTENDS Integers, Sequences, FiniteSets, TLC

(* ------------------------------ bounds -------------------------------- *)
\* total number of requests the model lets arrive
MaxRequests == 2
\* number of chunks the upstream model sends in one streamed generation
MaxFragments == 2
\* the clock steps followed when the cleanup timer runs
MaxTime == 9

(* ------------------------- program constants -------------------------- *)
\* GeminiService.retryAttempts, the default of GEMINI_RETRY_ATTEMPTS
retryAttempts == 3
\* handleLLMError: "Suggest retry after 60 seconds for sendMessage"
RetryAfterSeconds == 60
\* GEMINI_RETRY_DELAY: the base delay of the backoff, in milliseconds
retryDelay == 1000
\* the cap of the backoff delay and the bound of the jitter, in milliseconds
MaxRetryDelay == 30000
MaxJitter == 1000
\* MAX_RETRIES of executeToolCallsAndRespond
MAX_RETRIES == 2
\* the clock of the cleanup is read in steps of ten minutes
TickMillis == 10 * 60 * 1000
\* ANONYMOUS_CHAT_TIMEOUT = 60 * 60 * 1000, in clock steps
ANONYMOUS_CHAT_TIMEOUT == (60 * 60 * 1000) \div TickMillis
\* the period of the cleanup timer, 30 * 60 * 1000, in clock steps
CleanupInterval == (30 * 60 * 1000) \div TickMillis

(* ------------------------------ inputs -------------------------------- *)
\* the request slots: handlers that may be in flight at the same time
Slots == {"r1", "r2"}
\* the slot of the specification in which requests arrive one after the other
SeqSlots == {"r1"}
Users == {"u1", "u2"}
SP == " "
\* message texts are sequences of characters
Contents == {<<>>, <<SP>>, <<SP, "x", SP>>}
USER == "user"
ASSISTANT == "assistant"
SYSTEM == "system"
RequestRoles == {USER, ASSISTANT}
DefaultModel == "gemini-2.5-flash"
NoModel == "uninitialized"
\* the model parameter of a request: absent, allow-listed, or unknown
NoModelParam == ""
ModelParams == {NoModelParam, "gemini-2.5-flash", "gemini-2.5-pro", "not-a-model"}
\* text of one chunk sent by the upstream model (may be empty)
UpstreamTexts == {<<>>, <<"a">>, <<"b">>}
\* text of a non-streamed upstream reply
ReplyTexts == {<<"a">>}
\* how an upstream call ends
UpstreamOutcomes == {"ok", "retryable", "fatal"}
\* an absent id, an undefined field
NoId == 0 - 1
Undefined == 0 - 1

(* ----------------------------- helpers -------------------------------- *)
RECURSIVE trimStart(_)
trimStart(s) ==
  IF s # <<>> /\ Head(s) = SP THEN trimStart(Tail(s)) ELSE s

RECURSIVE trimEnd(_)
trimEnd(s) ==
  IF s # <<>> /\ s[Len(s)] = SP THEN trimEnd(SubSeq(s, 1, Len(s) - 1)) ELSE s

\* String.prototype.trim
trim(s) == trimEnd(trimStart(s))

\* a variant that forgets the trim: !content
IsBlankContentNoTrim(content) == content = <<>>

\* !content || !content.trim()
IsBlankContent(content) == content = <<>> \/ trim(content) = <<>>

\* JavaScript truthiness of a text: if (initialMessage)
Truthy(text) == text # <<>>

\* GeminiService.getAvailableModels
getAvailableModels == {"gemini-2.5-flash", "gemini-2.5-pro"}

\* GeminiService.initialize: creates the default model on first use
initialize(m) == IF m = NoModel THEN DefaultModel ELSE m

\* a variant that replaces the model before it validates the name
switchModelAssignFirst(m, modelName) ==
  [model |-> modelName, threw |-> modelName \notin getAvailableModels]

\* GeminiService.switchModel: initialize, validate, then replace the model.
\* threw = TRUE is the Error "Model <name> is not available. ..."
switchModel(m, modelName) ==
  IF modelName \in getAvailableModels
  THEN [model |-> modelName, threw |-> FALSE]
  ELSE [model |-> initialize(m), threw |-> TRUE]

\* a variant that validates the name and leaves the active model alone
handleModelSwitchSkipped(m, modelParam) ==
  [model |-> m, threw |-> modelParam \notin getAvailableModels \cup {NoModelParam}]

\* ChatController.handleModelSwitch: if (!model) return; switchModel(model)
handleModelSwitch(m, modelParam) ==
  IF modelParam = NoModelParam
  THEN [model |-> m, threw |-> FALSE]
  ELSE switchModel(m, modelParam)

\* the model generation uses: the active one, or the default created lazily
ActiveModel(m) == initialize(m)

\* a Message; id is unique per request and position (request message, reply)
Message(id, chatId, role, content, createdAt) ==
  [id |-> id, chatId |-> chatId, role |-> role, content |-> content,
   createdAt |-> createdAt]

NoMessage == Message(NoId, NoId, "none", <<>>, Undefined)

RequestMsgId(rid) == 2 * rid
ReplyMsgId(rid) == 2 * rid + 1

\* sendMessageWithRetry / sendMessageStream: the last message of the history
\* must be from the user, otherwise the call throws before going upstream
\* (an empty history throws on messages[-1].role)
LastIsUser(messages) ==
  Len(messages) > 0 /\ messages[Len(messages)].role = USER

\* what the check of the last message throws: the precondition error, or for
\* an empty history the TypeError of reading `role` of undefined
lastMessageError(messages) ==
  IF messages = <<>>
  THEN "Cannot read properties of undefined (reading 'role')"
  ELSE "Last message must be from user"

\* the error conditions isRetryableError looks for in the (lowercased) message
retryablePatterns ==
  {"503 service unavailable", "the model is overloaded", "rate limit exceeded",
   "quota exceeded", "internal server error", "bad gateway", "gateway timeout",
   "service unavailable", "too many requests"}

\* an error thrown by the upstream call: its message, and the phrases of
\* interest that the lowercased message contains
UpstreamError(message, mentions) ==
  [kind |-> "error", message |-> message, mentions |-> mentions]

\* GeminiService.isRetryableError: some pattern occurs in the message
isRetryableError(error) == error.mentions \cap retryablePatterns # {}

\* how sendMessageWithRetry sees the outcome of an upstream call
OutcomeOf(error) == IF isRetryableError(error) THEN "retryable" ELSE "fatal"

\* Math.pow(2, n)
Pow2(n) == 2 ^ n

\* a variant of calculateRetryDelay without the cap
calculateRetryDelayUncapped(attempt, jitter) ==
  retryDelay * Pow2(attempt) + jitter

\* GeminiService.calculateRetryDelay with Math.random() * 1000 = jitter
calculateRetryDelay(attempt, jitter) ==
  LET exponentialDelay == retryDelay * Pow2(attempt) IN
  IF exponentialDelay + jitter < MaxRetryDelay
  THEN exponentialDelay + jitter
  ELSE MaxRetryDelay

\* a variant that retries whatever the error is
sendMessageWithRetryAnyError(outcome, attempt, messages) ==
  IF outcome = "ok" THEN "success"
  ELSE IF attempt < retryAttempts
       THEN IF LastIsUser(messages) THEN "again" ELSE "failure"
       ELSE "failure"

\* a variant that allows one retry more
sendMessageWithRetryOneMore(outcome, attempt, messages) ==
  IF outcome = "ok" THEN "success"
  ELSE IF outcome = "retryable" /\ attempt <= retryAttempts
       THEN IF LastIsUser(messages) THEN "again" ELSE "failure"
       ELSE "failure"

\* sendMessageWithRetry, one attempt that went upstream with `outcome`:
\* "success", "again" (retry after the backoff delay) or "failure"
\* `messages` is the history as the retried call reads it
sendMessageWithRetry(outcome, attempt, messages) ==
  IF outcome = "ok" THEN "success"
  ELSE IF outcome = "retryable" /\ attempt < retryAttempts
       THEN IF LastIsUser(messages) THEN "again" ELSE "failure"
       ELSE "failure"

(* --------------------------- responses -------------------------------- *)
\* REST envelope: status, error code, retryAfter, chatId, payload
\* (data: the Message of the payload; dataChat: the id of the chat of the payload)
Response(status, code, retryAfter, chatId, data, dataChat) ==
  [status |-> status, code |-> code, retryAfter |-> retryAfter,
   chatId |-> chatId, data |-> data, dataChat |-> dataChat]

NoResponse == Response(0, "none", Undefined, NoId, NoMessage, NoId)

\* ResponseHelper.success(res, message) / success(res, chat, 201)
SuccessMessage(message) == Response(200, "none", Undefined, NoId, message, NoId)
SuccessChat(chatId) == Response(201, "none", Undefined, NoId, NoMessage, chatId)
\* ResponseHelper.badRequest(res, message, code?)
BadRequest(code) == Response(400, code, Undefined, NoId, NoMessage, NoId)
\* ResponseHelper.notFound
NotFound == Response(404, "NOT_FOUND", Undefined, NoId, NoMessage, NoId)
\* ResponseHelper.internalError
InternalError == Response(500, "INTERNAL_ERROR", Undefined, NoId, NoMessage, NoId)
\* ResponseHelper.serviceUnavailable(res, message, errorType, retryAfter, chatId)
ServiceUnavailable(errorType, retryAfter, chatId) ==
  Response(503, errorType, retryAfter, chatId, NoMessage, NoId)

\* a variant that always suggests the retry delay
handleLLMErrorAlwaysRetry(chatId, isInitialMessage) ==
  ServiceUnavailable("LLM_UNAVAILABLE", RetryAfterSeconds, chatId)

\* ChatController.handleLLMError
handleLLMError(chatId, isInitialMessage) ==
  ServiceUnavailable("LLM_UNAVAILABLE",
                     IF isInitialMessage THEN Undefined ELSE RetryAfterSeconds,
                     chatId)

\* SSE events written to the response channel
ChunkEvent(content) == [type |-> "chunk", content |-> content]
DoneEvent(message) == [type |-> "done", message |-> message]
ErrorEvent(text) == [type |-> "error", error |-> text]
\* a variant whose payload names the chat
StreamErrorEventWithChatId(chatId) ==
  [type |-> "error", error |-> "AI_UNAVAILABLE", chatId |-> chatId]
\* the error event of the inner catch of the streaming handlers
StreamErrorEvent(chatId) == ErrorEvent("AI_UNAVAILABLE")
\* a variant of the inner catch that closes the stream with a done event
\* for the partial text before it reports the error
innerCatchWithDone(evs, chatId) ==
  Append(Append(evs, DoneEvent(NoMessage)), StreamErrorEvent(chatId))
\* a variant of the inner catch that writes no event before it ends
innerCatchSilent(evs, chatId) == evs
\* the inner catch of the streaming handlers: what it writes after `evs`
innerCatch(evs, chatId) == Append(evs, StreamErrorEvent(chatId))
\* a variant that overwrites instead of appending: fullContent = chunk
accumulateLast(fullContent, chunk) == chunk
\* fullContent += chunk
accumulate(fullContent, chunk) == fullContent \o chunk

(* ------------------------------ state --------------------------------- *)
VARIABLES
  now,             \* Date.now()
  model,           \* GeminiService.model: the gateway's active model
  dbChats,         \* the durable store: chat id -> chat record
  anonymousChats,  \* ChatController.anonymousChats: the keys of the Map
  anonHeap,        \* the AnonymousChat objects, by chat id
  req,             \* per slot: the handler's position and locals
  resp,            \* per slot: the REST response sent (NoResponse if none)
  events,          \* per slot: the SSE events written, in order
  ended,           \* per slot: number of res.end() calls
  nreq,            \* number of requests that have arrived
  gw,              \* one call of the gateway's complete(), followed on its own
  tl,              \* one run of the tool invocation loop, followed on its own
  cleanupDue,      \* the time at which the cleanup timer is due next
  mg,              \* one request of migrateAnonymousChats, followed on its own
  deployment,      \* the configuration the process was started with
  gs,              \* one call of the gateway's sendMessageStream, on its own
  api,             \* one call of the frontend's ApiService, followed on its own
  hook,            \* the useChat hook of the frontend (one mounted component)
  ex,              \* a call of extractToolCalls on a response text
  rd,              \* a run of calculateRetryDelay over the attempts
  sse              \* the frontend's reader of one streamed response body

vars == <<now, model, dbChats, anonymousChats, anonHeap, req, resp, events,
          ended, nreq, gw, tl, cleanupDue, mg, deployment, gs,
          api,
          hook,
          ex,
          rd,
          sse>>

\* the state of the handlers, apart from the gateway's model
handlerVars == <<now, dbChats, anonymousChats, anonHeap, req, resp, events,
                 ended, nreq>>
\* the state of the components that are also followed on their own, and of
\* the cleanup timer; `components` are those that no handler of the other
\* specifications touches, with the configuration, which nothing changes
components == <<mg, deployment, gs, api, hook, ex, rd, sse>>
standalone == <<gw, tl, cleanupDue, components>>

\* MCP_CONFIG.enabled (this.mcpEnabled) and isOAuthEnabled()
Deployment(mcpEnabled, oauthEnabled) ==
  [mcpEnabled |-> mcpEnabled, oauthEnabled |-> oauthEnabled]
Deployments == {Deployment(m, o) : m, o \in BOOLEAN}
\* tool augmentation enabled, and a delegated credential required for it
McpWithOAuth == Deployment(TRUE, TRUE)

\* createMCPClient: null when MCP is disabled
createMCPClient(d, oauthToken) == d.mcpEnabled

\* a variant that asks for the token whatever the configuration
createMCPContextServiceNeedsToken(d, oauthToken) ==
  d.mcpEnabled /\ oauthToken

\* createMCPContextService: a context service is created (not null)
createMCPContextService(d, oauthToken) ==
  /\ d.mcpEnabled
  /\ ~(d.oauthEnabled /\ ~oauthToken)
  /\ createMCPClient(d, d.oauthEnabled /\ oauthToken)

\* getAIMessageResponse: what it invokes to generate the reply
getAIMessageResponse(d, oauthToken) ==
  IF d.mcpEnabled /\ createMCPContextService(d, oauthToken)
  THEN "toolLoop" ELSE "complete"

\* geminiService.sendMessageWithFallback called by the handler itself
\* (lines 145, 388, 473): neither the configuration nor the token is read
directCompletion(d, oauthToken) == "complete"

\* a variant of the streaming handlers that generates as sendMessage does
streamingCompletionWithTools(d, oauthToken) == getAIMessageResponse(d, oauthToken)

\* geminiService.sendMessageStream called by the streaming handlers (lines
\* 552, 637): neither the configuration nor the token is read
streamingCompletion(d, oauthToken) == "stream"

\* no call of complete() is being followed
NoCall ==
  [pc |-> "idle", messages |-> <<>>, attempt |-> 0, invocations |-> 0,
   outcomes |-> <<>>, delays |-> <<>>, result |-> <<>>, error |-> "none",
   conversation |-> <<>>]

\* no run of the tool invocation loop is being followed
NoLoop ==
  [pc |-> "idle", calls |-> <<>>, idx |-> 0, retryCount |-> 0,
   executions |-> 0, corrections |-> 0, toolRuns |-> 0,
   error |-> <<"none", 0>>,
   prompt |-> [toolName |-> "none", arguments |-> "none",
               error |-> <<"none", 0>>],
   cause |-> "none",
   fallbacks |-> 0, outcome |-> "none", from |-> "none"]

\* no call of the gateway's sendMessageStream is being followed
NoStream ==
  [pc |-> "idle", messages |-> <<>>, invocations |-> 0, upstream |-> <<>>,
   yielded |-> <<>>, error |-> "none", conversation |-> <<>>]

\* the result of a call of the ApiService: ApiResponse.success and .error, or
\* the callback of a streaming call with its argument
ApiResult(success, error) == [success |-> success, error |-> error]

\* decodeToken(): the payload of the stored JWT, null if it cannot be decoded
Payload(exp, oauthTokenExpiry) ==
  [decoded |-> TRUE, exp |-> exp, oauthTokenExpiry |-> oauthTokenExpiry]
NullPayload ==
  [decoded |-> FALSE, exp |-> Undefined, oauthTokenExpiry |-> Undefined]

\* no call of the frontend's ApiService is being followed, no token is stored
NoApiCall ==
  [pc |-> "idle", kind |-> "none", hasToken |-> FALSE, payload |-> NullPayload,
   hadToken |-> FALSE, clock |-> 0, sent |-> 0, status |-> 0,
   result |-> ApiResult(FALSE, "none"), calls |-> 0]

\* no request of migrateAnonymousChats is being followed
NoMigration ==
  [pc |-> "idle", userId |-> "none", chats |-> <<>>, idx |-> 0, msgIdx |-> 0,
   chatId |-> NoId, created |-> <<>>, migratedChats |-> <<>>,
   threw |-> <<>>, status |-> 0, before |-> {}]

Idle ==
  [pc |-> "idle", kind |-> "none", rid |-> NoId, chatId |-> NoId,
   role |-> "none", input |-> <<>>, modelParam |-> NoModelParam,
   content |-> <<>>, hist |-> <<>>, attempt |-> 0, fullContent |-> <<>>,
   consumed |-> 0, reply |-> <<>>, failedAt |-> "none", t0 |-> Undefined,
   oauthToken |-> FALSE, generator |-> "none", closedAt |-> NoId]

\* a finished handler: what it was, and the step at which it failed
Finished(r, failedAt) ==
  [Idle EXCEPT !.pc = "done", !.kind = r.kind, !.rid = r.rid,
               !.chatId = r.chatId, !.role = r.role, !.input = r.input,
               !.modelParam = IF failedAt = "model" THEN r.modelParam
                              ELSE NoModelParam,
               !.failedAt = failedAt, !.closedAt = r.closedAt]

\* no component is being followed on its own
\* the useChat hook before any send: the useState and useRef initial values
\* (variant "raf" is hooks/useChat.ts, "typewriter" the typewriter variant)
NoHook ==
  [variant |-> "raf", stream |-> "none", sends |-> 0, chunks |-> 0,
   isLoading |-> FALSE, isStreaming |-> FALSE, error |-> FALSE,
   messages |-> <<>>, queue |-> <<>>, lanes |-> FALSE,
   streamingMessageIdRef |-> NoId, chunkBuffer |-> 0, rafId |-> FALSE,
   pendingText |-> 0, displayedText |-> 0, streamingComplete |-> FALSE,
   finalMessage |-> FALSE, typewriterInterval |-> FALSE]

\* no text has been given to extractToolCalls
NoExtraction ==
  [pc |-> "idle", parts |-> <<>>, response |-> <<>>, toolCalls |-> <<>>,
   threw |-> FALSE]

\* no retry delay has been computed
NoDelay == [pc |-> "idle", attempt |-> 0, jitter |-> 0, delay |-> 0,
            previous |-> 0]

\* no response body is being read by the frontend's stream reader
NoReader ==
  [pc |-> "idle", events |-> <<>>, body |-> <<>>, pos |-> 0, reads |-> 0,
   buffer |-> <<>>, callbacks |-> <<>>, exit |-> "none"]

InitComponents ==
  /\ mg = NoMigration
  /\ gs = NoStream
  /\ api = NoApiCall
  /\ hook = NoHook
  /\ ex = NoExtraction
  /\ rd = NoDelay
  /\ sse = NoReader

Init ==
  /\ now = 0
  /\ model = NoModel
  /\ dbChats = (0 :> [owner |-> "u1", messages |-> <<>>,
                      createdAt |-> 0, updatedAt |-> 0])
  /\ anonymousChats = {}
  /\ anonHeap = << >>
  /\ req = [s \in Slots |-> Idle]
  /\ resp = [s \in Slots |-> NoResponse]
  /\ events = [s \in Slots |-> <<>>]
  /\ ended = [s \in Slots |-> 0]
  /\ nreq = 0
  /\ gw = NoCall
  /\ tl = NoLoop
  /\ cleanupDue = CleanupInterval
  /\ InitComponents
  /\ deployment = McpWithOAuth

\* a slot can take a new request
Free(s) == req[s].pc \in {"idle", "done"} /\ nreq < MaxRequests

\* chat ids a request may name: those handed out so far and one unknown
ChatIds == 0 .. (MaxRequests - 1)

(* ------------------- the ephemeral chat registry ---------------------- *)
NewAnonymousChat(messages, createdAt, updatedAt) ==
  [messages |-> messages, createdAt |-> createdAt, updatedAt |-> updatedAt]

\* a variant that puts the new message in front
pushMessageFirst(chat, m, t) ==
  [chat EXCEPT !.messages = <<m>> \o @, !.updatedAt = t]

\* anonymousChat.messages.push(m); anonymousChat.updatedAt = new Date()
pushMessage(chat, m, t) ==
  [chat EXCEPT !.messages = Append(@, m), !.updatedAt = t]

\* a variant of the error path that leaves the message list as it is
popMessageKeep(chat, t) == [chat EXCEPT !.updatedAt = t]

\* anonymousChat.messages.pop(); anonymousChat.updatedAt = new Date()
popMessage(chat, t) ==
  [chat EXCEPT !.messages = IF @ = <<>> THEN @ ELSE SubSeq(@, 1, Len(@) - 1),
               !.updatedAt = t]

\* a variant of the lookup that also finds chats the cleanup has removed
anonymousChatsGetObject(registry, heap, chatId) == chatId \in DOMAIN heap

\* this.anonymousChats.get(chatId) finds a chat
anonymousChatsGet(registry, heap, chatId) == chatId \in registry

\* the heap with the object of chat id replaced (or created)
StoreObject(heap, id, chat) ==
  [k \in (DOMAIN heap) \cup {id} |-> IF k = id THEN chat ELSE heap[k]]

(* --------------------- updates of one slot's state -------------------- *)
SetReq(s, r) == req' = [req EXCEPT ![s] = r]
SetResp(s, response) == resp' = [resp EXCEPT ![s] = response]
\* the REST handler returns `response`
Return(s, r, failedAt, response) ==
  /\ SetReq(s, Finished(r, failedAt))
  /\ SetResp(s, response)
\* res.write(event)
Write(s, evs) == events' = [events EXCEPT ![s] = evs]
\* the streaming handler writes its last event and calls res.end(); a
\* request that has just arrived has a fresh response object
WriteAndEnd(s, r, failedAt, evs) ==
  /\ SetReq(s, Finished(r, failedAt))
  /\ Write(s, evs)
  /\ ended' = [ended EXCEPT ![s] =
                 IF req[s].pc \in {"idle", "done"} THEN 1 ELSE @ + 1]
\* a request arrives in slot s; the clock has advanced since the last arrival
Arrive(s) ==
  /\ Free(s)
  /\ nreq' = nreq + 1
  /\ now' = now + 1

(* ------------------------ createAnonymousChat ------------------------- *)
\* lines 351-432 up to the await of the gateway call
CreateAnonymousChat(s) ==
  LET rid == nreq + 1
      chatId == rid
      r == [Idle EXCEPT !.kind = "createAnonymousChat", !.rid = rid,
                        !.chatId = chatId, !.role = USER, !.t0 = now']
  IN
  /\ Arrive(s)
  /\ UNCHANGED <<standalone, dbChats>>
  /\ events' = [events EXCEPT ![s] = <<>>]
  /\ ended' = [ended EXCEPT ![s] = 0]
  /\ \E initialMessage \in Contents :
       IF ~Truthy(initialMessage)
       THEN \* no initial message: store the empty chat
            /\ anonHeap' = StoreObject(anonHeap, chatId,
                                       NewAnonymousChat(<<>>, now', now'))
            /\ anonymousChats' = anonymousChats \cup {chatId}
            /\ Return(s, r, "none", SuccessChat(chatId))
            /\ UNCHANGED model
       ELSE \E modelParam \in ModelParams :
         LET sw == handleModelSwitch(model, modelParam)
             userMessage == Message(RequestMsgId(rid), chatId, USER,
                                    trim(initialMessage), now')
         IN
         IF sw.threw
         THEN \* the inner catch: the chat is stored with the user message
              /\ model' = sw.model
              /\ anonHeap' = StoreObject(anonHeap, chatId,
                                NewAnonymousChat(<<userMessage>>, now', now'))
              /\ anonymousChats' = anonymousChats \cup {chatId}
              /\ Return(s, [r EXCEPT !.modelParam = modelParam], "model",
                        handleLLMError(chatId, TRUE))
         ELSE \* sendMessageWithFallback([userMessage]) goes upstream
              /\ model' = initialize(sw.model)
              /\ SetReq(s, [r EXCEPT !.pc = "gen", !.generator = directCompletion(deployment, r.oauthToken),
                                     !.hist = <<userMessage>>,
                                     !.input = initialMessage,
                                     !.modelParam = modelParam])
              /\ SetResp(s, NoResponse)
              /\ UNCHANGED <<anonHeap, anonymousChats>>

\* the code after the gateway call: lines 388-421 and the catch 400-415
CreateAnonymousChatResume(s) ==
  \E outcome \in UpstreamOutcomes, text \in ReplyTexts :
    LET r == req[s]
        userMessage == r.hist[1]
        assistantMessage == Message(ReplyMsgId(r.rid), r.chatId, ASSISTANT,
                                    text, now)
        res == sendMessageWithRetry(outcome, r.attempt, r.hist)
    IN
    /\ r.pc = "gen" /\ r.kind = "createAnonymousChat"
    /\ UNCHANGED <<standalone, now, model, dbChats, events, ended, nreq>>
    /\ CASE res = "success" ->
              /\ anonHeap' = StoreObject(anonHeap, r.chatId,
                   NewAnonymousChat(<<userMessage, assistantMessage>>, r.t0, now))
              /\ anonymousChats' = anonymousChats \cup {r.chatId}
              /\ Return(s, r, "none", SuccessChat(r.chatId))
         [] res = "again" ->
              /\ SetReq(s, [r EXCEPT !.attempt = @ + 1])
              /\ UNCHANGED <<anonHeap, anonymousChats, resp>>
         [] OTHER ->
              /\ anonHeap' = StoreObject(anonHeap, r.chatId,
                   NewAnonymousChat(<<userMessage>>, r.t0, now))
              /\ anonymousChats' = anonymousChats \cup {r.chatId}
              /\ Return(s, r, "generate", handleLLMError(r.chatId, TRUE))

(* ------------------------ sendAnonymousMessage ------------------------ *)
\* lines 438-473 up to the await of the gateway call
SendAnonymousMessage(s) ==
  LET rid == nreq + 1
      r0 == [Idle EXCEPT !.kind = "sendAnonymousMessage", !.rid = rid]
  IN
  /\ Arrive(s)
  /\ UNCHANGED <<standalone, dbChats, anonymousChats>>
  /\ events' = [events EXCEPT ![s] = <<>>]
  /\ ended' = [ended EXCEPT ![s] = 0]
  /\ \E content \in Contents :
       IF IsBlankContent(content)
       THEN /\ Return(s, [r0 EXCEPT !.input = content], "validate",
                   BadRequest("BAD_REQUEST"))
            /\ UNCHANGED <<model, anonHeap>>
       ELSE \E chatId \in ChatIds :
         IF ~anonymousChatsGet(anonymousChats, anonHeap, chatId)
         THEN /\ Return(s, [r0 EXCEPT !.input = content, !.chatId = chatId],
                        "authorize", NotFound)
              /\ UNCHANGED <<model, anonHeap>>
         ELSE \E modelParam \in ModelParams :
           LET sw == handleModelSwitch(model, modelParam) IN
           IF sw.threw
           THEN /\ model' = sw.model
                /\ Return(s, [r0 EXCEPT !.input = content,
                                       !.chatId = chatId,
                                       !.modelParam = modelParam],
                       "model",
                       BadRequest("INVALID_MODEL"))
                /\ UNCHANGED anonHeap
           ELSE \E role \in RequestRoles :
             LET r == [r0 EXCEPT !.chatId = chatId, !.role = role,
                                  !.input = content, !.modelParam = modelParam]
                 userMessage == Message(RequestMsgId(rid), chatId, role,
                                        trim(content), now')
                 chat == pushMessage(anonHeap[chatId], userMessage, now')
             IN
             /\ model' = initialize(sw.model)
             /\ IF LastIsUser(chat.messages)
                THEN /\ anonHeap' = StoreObject(anonHeap, chatId, chat)
                     /\ SetReq(s, [r EXCEPT !.pc = "gen", !.generator = directCompletion(deployment, r.oauthToken)])
                     /\ SetResp(s, NoResponse)
                ELSE \* the gateway call throws at once; the catch pops
                     /\ anonHeap' = StoreObject(anonHeap, chatId,
                                                popMessage(chat, now'))
                     /\ Return(s, r, "generate", handleLLMError(NoId, FALSE))

\* the code after the gateway call: lines 475-497
SendAnonymousMessageResume(s) ==
  \E outcome \in UpstreamOutcomes, text \in ReplyTexts :
    LET r == req[s]
        chat == anonHeap[r.chatId]
        assistantMessage == Message(ReplyMsgId(r.rid), r.chatId, ASSISTANT,
                                    text, now)
        res == sendMessageWithRetry(outcome, r.attempt, chat.messages)
    IN
    /\ r.pc = "gen" /\ r.kind = "sendAnonymousMessage"
    /\ UNCHANGED <<standalone, now, model, dbChats, events, ended, nreq>>
    /\ CASE res = "success" ->
              /\ anonHeap' = StoreObject(anonHeap, r.chatId,
                                         pushMessage(chat, assistantMessage, now))
              /\ anonymousChats' = anonymousChats \cup {r.chatId}
              /\ Return(s, r, "none", SuccessMessage(assistantMessage))
         [] res = "again" ->
              /\ SetReq(s, [r EXCEPT !.attempt = @ + 1])
              /\ UNCHANGED <<anonHeap, anonymousChats, resp>>
         [] OTHER ->
              /\ anonHeap' = StoreObject(anonHeap, r.chatId, popMessage(chat, now))
              /\ Return(s, r, "generate", handleLLMError(NoId, FALSE))
              /\ UNCHANGED anonymousChats

(* --------------------- sendAnonymousMessageStream --------------------- *)
\* lines 593-641 up to the await of the upstream stream
SendAnonymousMessageStream(s) ==
  LET rid == nreq + 1
      r0 == [Idle EXCEPT !.kind = "sendAnonymousMessageStream", !.rid = rid]
  IN
  /\ Arrive(s)
  /\ UNCHANGED <<standalone, dbChats, anonymousChats>>
  /\ SetResp(s, NoResponse)
  /\ \E content \in Contents :
       IF IsBlankContent(content)
       THEN /\ WriteAndEnd(s, [r0 EXCEPT !.input = content], "validate",
                        <<ErrorEvent("CONTENT_REQUIRED")>>)
            /\ UNCHANGED <<model, anonHeap>>
       ELSE \E chatId \in ChatIds :
         IF ~anonymousChatsGet(anonymousChats, anonHeap, chatId)
         THEN /\ WriteAndEnd(s, [r0 EXCEPT !.input = content,
                                           !.chatId = chatId],
                             "authorize", <<ErrorEvent("CHAT_NOT_FOUND")>>)
              /\ UNCHANGED <<model, anonHeap>>
         ELSE \E modelParam \in ModelParams :
           LET sw == handleModelSwitch(model, modelParam) IN
           IF sw.threw
           THEN \* the outer catch writes error.message
                /\ model' = sw.model
                /\ WriteAndEnd(s, [r0 EXCEPT !.input = content,
                                       !.chatId = chatId,
                                       !.modelParam = modelParam],
                       "model",
                               <<ErrorEvent("MODEL_NOT_AVAILABLE")>>)
                /\ UNCHANGED anonHeap
           ELSE \E role \in RequestRoles :
             LET r == [r0 EXCEPT !.chatId = chatId, !.role = role,
                                  !.input = content, !.modelParam = modelParam]
                 userMessage == Message(RequestMsgId(rid), chatId, role,
                                        trim(content), now')
                 chat == pushMessage(anonHeap[chatId], userMessage, now')
             IN
             /\ model' = initialize(sw.model)
             /\ IF LastIsUser(chat.messages)
                THEN /\ anonHeap' = StoreObject(anonHeap, chatId, chat)
                     /\ SetReq(s, [r EXCEPT !.pc = "stream", !.generator =
                                 streamingCompletion(deployment, r.oauthToken)])
                     /\ Write(s, <<>>)
                     /\ ended' = [ended EXCEPT ![s] = 0]
                ELSE \* the generator throws at once; the inner catch pops
                     /\ anonHeap' = StoreObject(anonHeap, chatId,
                                                popMessage(chat, now'))
                     /\ WriteAndEnd(s, r, "generate",
                                    innerCatch(<<>>, chatId))

\* the body of the for-await loop of both streaming handlers (lines 556-559,
\* 641-644) with the gateway's filter of empty chunk texts (part_003 293-298)
StreamChunk(s) ==
  \E text \in UpstreamTexts :
    LET r == req[s] IN
    /\ r.pc = "stream"
    /\ r.consumed < MaxFragments
    /\ UNCHANGED <<standalone, now, model, dbChats, anonymousChats, anonHeap, resp, ended,
                   nreq>>
    /\ IF text = <<>>
       THEN /\ SetReq(s, [r EXCEPT !.consumed = @ + 1])
            /\ UNCHANGED events
       ELSE /\ SetReq(s, [r EXCEPT !.consumed = @ + 1,
                                   !.fullContent = accumulate(@, text)])
            /\ Write(s, Append(events[s], ChunkEvent(text)))

\* the upstream stream ends: lines 646-664
SendAnonymousMessageStreamEnd(s) ==
  LET r == req[s]
      chat == anonHeap[r.chatId]
      assistantMessage == Message(ReplyMsgId(r.rid), r.chatId, ASSISTANT,
                                  r.fullContent, now)
  IN
  /\ r.pc = "stream" /\ r.kind = "sendAnonymousMessageStream"
  /\ UNCHANGED <<standalone, now, model, dbChats, resp, nreq>>
  /\ anonHeap' = StoreObject(anonHeap, r.chatId,
                             pushMessage(chat, assistantMessage, now))
  /\ anonymousChats' = anonymousChats \cup {r.chatId}
  /\ WriteAndEnd(s, r, "none", Append(events[s], DoneEvent(assistantMessage)))

\* a variant of the inner catch that stores the partial text as the reply
SendAnonymousMessageStreamErrorKeepPartial(s) ==
  LET r == req[s]
      chat == anonHeap[r.chatId]
      assistantMessage == Message(ReplyMsgId(r.rid), r.chatId, ASSISTANT,
                                  r.fullContent, now)
  IN
  /\ r.pc = "stream" /\ r.kind = "sendAnonymousMessageStream"
  /\ UNCHANGED <<standalone, now, model, dbChats, anonymousChats, resp, nreq>>
  /\ anonHeap' = StoreObject(anonHeap, r.chatId,
                             pushMessage(chat, assistantMessage, now))
  /\ WriteAndEnd(s, r, "generate", innerCatch(events[s], r.chatId))

\* the upstream stream fails: the inner catch, lines 665-672
SendAnonymousMessageStreamError(s) ==
  LET r == req[s]
      chat == anonHeap[r.chatId]
  IN
  /\ r.pc = "stream" /\ r.kind = "sendAnonymousMessageStream"
  /\ UNCHANGED <<standalone, now, model, dbChats, anonymousChats, resp, nreq>>
  /\ anonHeap' = StoreObject(anonHeap, r.chatId, popMessage(chat, now))
  /\ WriteAndEnd(s, r, "generate", innerCatch(events[s], r.chatId))

(* ------------------------- the durable store -------------------------- *)
\* databaseService.createChat(userId, title)
dbCreateChat(db, id, userId, t) ==
  [k \in (DOMAIN db) \cup {id} |->
     IF k = id
     THEN [owner |-> userId, messages |-> <<>>, createdAt |-> t, updatedAt |-> t]
     ELSE db[k]]

\* databaseService.getChat(chatId, userId): the chat, if it is the user's
dbHasChat(db, chatId, userId) ==
  chatId \in DOMAIN db /\ db[chatId].owner = userId

\* databaseService.addMessage(chatId, role, content)
dbAddMessage(db, m, t) ==
  [db EXCEPT ![m.chatId].messages = Append(@, m), ![m.chatId].updatedAt = t]

\* databaseService.getMessages(chatId)
dbGetMessages(db, chatId) == db[chatId].messages

(* ----------------------------- sendMessage ---------------------------- *)
\* lines 238-260 up to the await of addMessage
SendMessage(s) ==
  LET rid == nreq + 1
      r0 == [Idle EXCEPT !.kind = "sendMessage", !.rid = rid]
  IN
  /\ Arrive(s)
  /\ UNCHANGED <<standalone, dbChats, anonymousChats, anonHeap>>
  /\ events' = [events EXCEPT ![s] = <<>>]
  /\ ended' = [ended EXCEPT ![s] = 0]
  /\ \E content \in Contents :
       IF IsBlankContent(content)
       THEN Return(s, [r0 EXCEPT !.input = content], "validate",
                   BadRequest("BAD_REQUEST"))
            /\ UNCHANGED model
       ELSE \E dbOk \in BOOLEAN :
         IF ~dbOk
         THEN Return(s, [r0 EXCEPT !.input = content], "authorize",
                     InternalError)
              /\ UNCHANGED model
         ELSE \E chatId \in ChatIds, userId \in Users :
           IF ~dbHasChat(dbChats, chatId, userId)
           THEN Return(s, [r0 EXCEPT !.input = content], "authorize",
                       NotFound)
                /\ UNCHANGED model
           ELSE \E modelParam \in ModelParams :
             LET sw == handleModelSwitch(model, modelParam) IN
             IF sw.threw
             THEN Return(s, [r0 EXCEPT !.input = content,
                                       !.modelParam = modelParam],
                       "model",
                       BadRequest("INVALID_MODEL"))
                  /\ model' = sw.model
             ELSE \E role \in RequestRoles, oauthToken \in BOOLEAN :
               /\ model' = sw.model
               /\ SetReq(s, [r0 EXCEPT !.pc = "addUser", !.chatId = chatId,
                                       !.role = role, !.input = content,
                                       !.modelParam = modelParam,
                                       !.content = trim(content),
                                       !.oauthToken = oauthToken])
               /\ SetResp(s, NoResponse)

\* addMessage of the user message executes; line 264 awaits getMessages
SendMessageAddUser(s) ==
  \E dbOk \in BOOLEAN :
    LET r == req[s]
        userMessage == Message(RequestMsgId(r.rid), r.chatId, r.role, r.content, now)
    IN
    /\ r.pc = "addUser" /\ r.kind = "sendMessage"
    /\ UNCHANGED <<standalone, now, model, anonymousChats, anonHeap, events, ended, nreq>>
    /\ IF dbOk
       THEN /\ dbChats' = dbAddMessage(dbChats, userMessage, now)
            /\ SetReq(s, [r EXCEPT !.pc = "getMessages"])
            /\ UNCHANGED resp
       ELSE /\ Return(s, r, "persistUser", InternalError)
            /\ UNCHANGED dbChats

\* getMessages executes; getAIMessageResponse (lines 218-233) starts
\* generation, through the tool loop when an MCP context service is created
SendMessageGetMessages(s) ==
  \E dbOk \in BOOLEAN :
    LET r == [req[s] EXCEPT !.generator =
                getAIMessageResponse(deployment, req[s].oauthToken)]
        mcp == r.generator = "toolLoop"
        chatHistory == dbGetMessages(dbChats, r.chatId)
    IN
    /\ r.pc = "getMessages" /\ r.kind = "sendMessage"
    /\ UNCHANGED <<standalone, now, dbChats, anonymousChats, anonHeap, events, ended, nreq>>
    /\ IF ~dbOk
       THEN Return(s, r, "history", handleLLMError(NoId, FALSE)) /\ UNCHANGED model
       ELSE IF mcp
       THEN /\ SetReq(s, [r EXCEPT !.pc = "mcp", !.hist = chatHistory])
            /\ model' = initialize(model)
            /\ UNCHANGED resp
       ELSE /\ model' = initialize(model)
            /\ IF LastIsUser(chatHistory)
               THEN SetReq(s, [r EXCEPT !.pc = "gen", !.hist = chatHistory])
                    /\ UNCHANGED resp
               ELSE Return(s, r, "generate", handleLLMError(NoId, FALSE))

\* processWithMCPIntegration (lines 850-892): the tool loop answers, or fails
\* and the catch falls back to sendMessageWithFallback(chatHistory)
SendMessageMCP(s) ==
  \E answered \in BOOLEAN, text \in ReplyTexts :
    LET r == req[s] IN
    /\ r.pc = "mcp" /\ r.kind = "sendMessage"
    /\ UNCHANGED <<standalone, now, model, dbChats, anonymousChats, anonHeap, events,
                   ended, nreq>>
    /\ IF answered
       THEN SetReq(s, [r EXCEPT !.pc = "persistA", !.reply = text]) /\ UNCHANGED resp
       ELSE IF LastIsUser(r.hist)
       THEN SetReq(s, [r EXCEPT !.pc = "gen"]) /\ UNCHANGED resp
       ELSE Return(s, r, "generate", handleLLMError(NoId, FALSE))

\* the gateway call returns: lines 267-274, or the catch at 281-283
SendMessageResume(s) ==
  \E outcome \in UpstreamOutcomes, text \in ReplyTexts :
    LET r == req[s]
        res == sendMessageWithRetry(outcome, r.attempt, r.hist)
    IN
    /\ r.pc = "gen" /\ r.kind = "sendMessage"
    /\ UNCHANGED <<standalone, now, model, dbChats, anonymousChats, anonHeap, events,
                   ended, nreq>>
    /\ CASE res = "success" ->
              SetReq(s, [r EXCEPT !.pc = "persistA", !.reply = text])
              /\ UNCHANGED resp
         [] res = "again" ->
              SetReq(s, [r EXCEPT !.attempt = @ + 1]) /\ UNCHANGED resp
         [] OTHER ->
              Return(s, r, "generate", handleLLMError(NoId, FALSE))

\* a variant that answers before it knows the reply was stored
SendMessagePersistAnswerFirst(s) ==
  \E dbOk \in BOOLEAN :
    LET r == req[s]
        assistantMessage == Message(ReplyMsgId(r.rid), r.chatId, ASSISTANT,
                                    r.reply, now)
    IN
    /\ r.pc = "persistA" /\ r.kind = "sendMessage"
    /\ UNCHANGED <<standalone, now, model, anonymousChats, anonHeap, events, ended, nreq>>
    /\ Return(s, r, "none", SuccessMessage(assistantMessage))
    /\ IF dbOk
       THEN dbChats' = dbAddMessage(dbChats, assistantMessage, now)
       ELSE UNCHANGED dbChats

\* addMessage of the assistant message executes: lines 274-283
SendMessagePersist(s) ==
  \E dbOk \in BOOLEAN :
    LET r == req[s]
        assistantMessage == Message(ReplyMsgId(r.rid), r.chatId, ASSISTANT,
                                    r.reply, now)
    IN
    /\ r.pc = "persistA" /\ r.kind = "sendMessage"
    /\ UNCHANGED <<standalone, now, model, anonymousChats, anonHeap, events, ended, nreq>>
    /\ IF dbOk
       THEN /\ dbChats' = dbAddMessage(dbChats, assistantMessage, now)
            /\ Return(s, r, "none", SuccessMessage(assistantMessage))
       ELSE /\ Return(s, r, "persistAssistant", handleLLMError(NoId, FALSE))
            /\ UNCHANGED dbChats

(* -------------------------- sendMessageStream ------------------------- *)
\* lines 514-547 up to the await of addMessage
SendMessageStream(s) ==
  LET rid == nreq + 1
      r0 == [Idle EXCEPT !.kind = "sendMessageStream", !.rid = rid]
  IN
  /\ Arrive(s)
  /\ UNCHANGED <<standalone, dbChats, anonymousChats, anonHeap>>
  /\ SetResp(s, NoResponse)
  /\ \E content \in Contents :
       IF IsBlankContent(content)
       THEN WriteAndEnd(s, [r0 EXCEPT !.input = content], "validate",
                        <<ErrorEvent("CONTENT_REQUIRED")>>)
            /\ UNCHANGED model
       ELSE \E dbOk \in BOOLEAN :
         IF ~dbOk
         THEN WriteAndEnd(s, [r0 EXCEPT !.input = content], "authorize",
                          <<ErrorEvent("FAILED_TO_SEND")>>)
              /\ UNCHANGED model
         ELSE \E chatId \in ChatIds, userId \in Users :
           IF ~dbHasChat(dbChats, chatId, userId)
           THEN WriteAndEnd(s, [r0 EXCEPT !.input = content], "authorize",
                          <<ErrorEvent("CHAT_NOT_FOUND")>>)
                /\ UNCHANGED model
           ELSE \E modelParam \in ModelParams :
             LET sw == handleModelSwitch(model, modelParam) IN
             IF sw.threw
             THEN \* the outer catch writes error.message
                  WriteAndEnd(s, [r0 EXCEPT !.input = content,
                                       !.modelParam = modelParam],
                       "model",
                              <<ErrorEvent("MODEL_NOT_AVAILABLE")>>)
                  /\ model' = sw.model
             ELSE \E role \in RequestRoles, oauthToken \in BOOLEAN :
               /\ model' = sw.model
               /\ SetReq(s, [r0 EXCEPT !.pc = "addUser", !.chatId = chatId,
                                       !.role = role, !.input = content,
                                       !.modelParam = modelParam,
                                       !.content = trim(content),
                                       !.oauthToken = oauthToken])
               /\ Write(s, <<>>)
               /\ ended' = [ended EXCEPT ![s] = 0]

\* addMessage of the user message executes; line 550 awaits getMessages
SendMessageStreamAddUser(s) ==
  \E dbOk \in BOOLEAN :
    LET r == req[s]
        userMessage == Message(RequestMsgId(r.rid), r.chatId, r.role, r.content, now)
    IN
    /\ r.pc = "addUser" /\ r.kind = "sendMessageStream"
    /\ UNCHANGED <<standalone, now, model, anonymousChats, anonHeap, resp, nreq>>
    /\ IF dbOk
       THEN /\ dbChats' = dbAddMessage(dbChats, userMessage, now)
            /\ SetReq(s, [r EXCEPT !.pc = "getMessages"])
            /\ UNCHANGED <<events, ended>>
       ELSE /\ WriteAndEnd(s, r, "persistUser", <<ErrorEvent("FAILED_TO_SEND")>>)
            /\ UNCHANGED dbChats

\* getMessages executes; the for-await starts the gateway's generator
SendMessageStreamGetMessages(s) ==
  \E dbOk \in BOOLEAN :
    LET r == req[s]
        chatHistory == dbGetMessages(dbChats, r.chatId)
    IN
    /\ r.pc = "getMessages" /\ r.kind = "sendMessageStream"
    /\ UNCHANGED <<standalone, now, dbChats, anonymousChats, anonHeap, resp, nreq>>
    /\ IF ~dbOk
       THEN WriteAndEnd(s, r, "history", <<ErrorEvent("FAILED_TO_SEND")>>)
            /\ UNCHANGED model
       ELSE /\ model' = initialize(model)
            /\ IF LastIsUser(chatHistory)
               THEN SetReq(s, [r EXCEPT !.pc = "stream", !.hist = chatHistory,
                                          !.generator =
                                 streamingCompletion(deployment, r.oauthToken)])
                    /\ UNCHANGED <<events, ended>>
               ELSE WriteAndEnd(s, r, "generate", innerCatch(<<>>, r.chatId))

\* the upstream stream ends: line 562 awaits addMessage
SendMessageStreamEnd(s) ==
  LET r == req[s] IN
  /\ r.pc = "stream" /\ r.kind = "sendMessageStream"
  /\ UNCHANGED <<standalone, now, model, dbChats, anonymousChats, anonHeap, resp, events,
                 ended, nreq>>
  /\ SetReq(s, [r EXCEPT !.pc = "persistA"])

\* the upstream stream fails: the inner catch, lines 571-575
SendMessageStreamError(s) ==
  LET r == req[s] IN
  /\ r.pc = "stream" /\ r.kind = "sendMessageStream"
  /\ UNCHANGED <<standalone, now, model, dbChats, anonymousChats, anonHeap, resp, nreq>>
  /\ WriteAndEnd(s, r, "generate", innerCatch(events[s], r.chatId))

\* addMessage of the assistant message executes: lines 562-575
SendMessageStreamPersist(s) ==
  \E dbOk \in BOOLEAN :
    LET r == req[s]
        assistantMessage == Message(ReplyMsgId(r.rid), r.chatId, ASSISTANT,
                                    r.fullContent, now)
    IN
    /\ r.pc = "persistA" /\ r.kind = "sendMessageStream"
    /\ UNCHANGED <<standalone, now, model, anonymousChats, anonHeap, resp, nreq>>
    /\ IF dbOk
       THEN /\ dbChats' = dbAddMessage(dbChats, assistantMessage, now)
            /\ WriteAndEnd(s, r, "none",
                           Append(events[s], DoneEvent(assistantMessage)))
       ELSE /\ WriteAndEnd(s, r, "persistAssistant",
                           innerCatch(events[s], r.chatId))
            /\ UNCHANGED dbChats

(* ------------------------------ createChat ---------------------------- *)
\* lines 161-192 with processInitialMessage (127-142) up to the await of
\* addMessage; createChat of the store executes first
CreateChat(s) ==
  LET rid == nreq + 1
      chatId == rid
      r0 == [Idle EXCEPT !.kind = "createChat", !.rid = rid]
      r == [r0 EXCEPT !.chatId = chatId, !.role = USER]
  IN
  /\ Arrive(s)
  /\ UNCHANGED <<standalone, anonymousChats, anonHeap>>
  /\ events' = [events EXCEPT ![s] = <<>>]
  /\ ended' = [ended EXCEPT ![s] = 0]
  /\ \E dbOk \in BOOLEAN :
       IF ~dbOk
       THEN /\ Return(s, r0, "create", InternalError)
            /\ UNCHANGED <<model, dbChats>>
       ELSE \E userId \in Users, initialMessage \in Contents :
         /\ dbChats' = dbCreateChat(dbChats, chatId, userId, now')
         /\ IF ~Truthy(initialMessage)
            THEN Return(s, r, "none", SuccessChat(chatId)) /\ UNCHANGED model
            ELSE \E modelParam \in ModelParams :
              LET sw == handleModelSwitch(model, modelParam) IN
              IF sw.threw
              THEN \* caught by the inner catch of createChat
                   /\ Return(s, [r EXCEPT !.modelParam = modelParam], "model",
                        handleLLMError(chatId, TRUE))
                   /\ model' = sw.model
              ELSE \E oauthToken \in BOOLEAN :
                   /\ model' = sw.model
                   /\ SetReq(s, [r EXCEPT !.pc = "addUser",
                                          !.input = initialMessage,
                                          !.modelParam = modelParam,
                                          !.content = initialMessage,
                                          !.oauthToken = oauthToken])
                   /\ SetResp(s, NoResponse)

\* processInitialMessage: addMessage executes, the gateway call starts
CreateChatAddUser(s) ==
  \E dbOk \in BOOLEAN :
    LET r == req[s]
        userMessage == Message(RequestMsgId(r.rid), r.chatId, USER, r.content, now)
    IN
    /\ r.pc = "addUser" /\ r.kind = "createChat"
    /\ UNCHANGED <<standalone, now, anonymousChats, anonHeap, events, ended, nreq>>
    /\ IF dbOk
       THEN /\ dbChats' = dbAddMessage(dbChats, userMessage, now)
            /\ model' = initialize(model)
            /\ SetReq(s, [r EXCEPT !.pc = "gen", !.hist = <<userMessage>>,
                                   !.generator = directCompletion(deployment, r.oauthToken)])
            /\ UNCHANGED resp
       ELSE /\ Return(s, r, "persistUser", handleLLMError(r.chatId, TRUE))
            /\ UNCHANGED <<model, dbChats>>

\* processInitialMessage: the gateway call returns (lines 145-152)
CreateChatResume(s) ==
  \E outcome \in UpstreamOutcomes, text \in ReplyTexts :
    LET r == req[s]
        res == sendMessageWithRetry(outcome, r.attempt, r.hist)
    IN
    /\ r.pc = "gen" /\ r.kind = "createChat"
    /\ UNCHANGED <<standalone, now, model, dbChats, anonymousChats, anonHeap, events,
                   ended, nreq>>
    /\ CASE res = "success" ->
              SetReq(s, [r EXCEPT !.pc = "persistA", !.reply = text])
              /\ UNCHANGED resp
         [] res = "again" ->
              SetReq(s, [r EXCEPT !.attempt = @ + 1]) /\ UNCHANGED resp
         [] OTHER ->
              Return(s, r, "generate", handleLLMError(r.chatId, TRUE))

\* processInitialMessage: addMessage of the reply executes (lines 148-155)
CreateChatPersist(s) ==
  \E dbOk \in BOOLEAN :
    LET r == req[s]
        assistantMessage == Message(ReplyMsgId(r.rid), r.chatId, ASSISTANT,
                                    r.reply, now)
    IN
    /\ r.pc = "persistA" /\ r.kind = "createChat"
    /\ UNCHANGED <<standalone, now, model, anonymousChats, anonHeap, events, ended, nreq>>
    /\ IF dbOk
       THEN /\ dbChats' = dbAddMessage(dbChats, assistantMessage, now)
            /\ SetReq(s, [r EXCEPT !.pc = "reload"])
            /\ UNCHANGED resp
       ELSE /\ Return(s, r, "persistAssistant", handleLLMError(r.chatId, TRUE))
            /\ UNCHANGED dbChats

\* processInitialMessage: getChat executes, createChat answers (172-178)
CreateChatReload(s) ==
  \E dbOk \in BOOLEAN :
    LET r == req[s] IN
    /\ r.pc = "reload" /\ r.kind = "createChat"
    /\ UNCHANGED <<standalone, now, model, dbChats, anonymousChats, anonHeap, events,
                   ended, nreq>>
    /\ IF dbOk
       THEN Return(s, r, "none", SuccessChat(r.chatId))
       ELSE Return(s, r, "reload", handleLLMError(r.chatId, TRUE))

Next ==
  \/ \E s \in SeqSlots : CreateChat(s)
  \/ \E s \in SeqSlots : CreateChatAddUser(s)
  \/ \E s \in SeqSlots : CreateChatResume(s)
  \/ \E s \in SeqSlots : CreateChatPersist(s)
  \/ \E s \in SeqSlots : CreateChatReload(s)
  \/ \E s \in SeqSlots : CreateAnonymousChat(s)
  \/ \E s \in SeqSlots : CreateAnonymousChatResume(s)
  \/ \E s \in SeqSlots : SendMessage(s)
  \/ \E s \in SeqSlots : SendMessageAddUser(s)
  \/ \E s \in SeqSlots : SendMessageGetMessages(s)
  \/ \E s \in SeqSlots : SendMessageMCP(s)
  \/ \E s \in SeqSlots : SendMessageResume(s)
  \/ \E s \in SeqSlots : SendMessagePersist(s)
  \/ \E s \in SeqSlots : SendAnonymousMessage(s)
  \/ \E s \in SeqSlots : SendAnonymousMessageResume(s)
  \/ \E s \in SeqSlots : SendMessageStream(s)
  \/ \E s \in SeqSlots : SendMessageStreamAddUser(s)
  \/ \E s \in SeqSlots : SendMessageStreamGetMessages(s)
  \/ \E s \in SeqSlots : SendMessageStreamEnd(s)
  \/ \E s \in SeqSlots : SendMessageStreamError(s)
  \/ \E s \in SeqSlots : SendMessageStreamPersist(s)
  \/ \E s \in SeqSlots : SendAnonymousMessageStream(s)
  \/ \E s \in SeqSlots : StreamChunk(s)
  \/ \E s \in SeqSlots : SendAnonymousMessageStreamEnd(s)
  \/ \E s \in SeqSlots : SendAnonymousMessageStreamError(s)

Spec == Init /\ [][Next]_vars

(* ===================== properties of the handlers ===================== *)
StreamKinds == {"sendMessageStream", "sendAnonymousMessageStream"}
RestSendKinds == {"sendMessage", "sendAnonymousMessage"}
SendKinds == StreamKinds \cup RestSendKinds
CreateKinds == {"createChat", "createAnonymousChat"}
AnonymousKinds == {"createAnonymousChat", "sendAnonymousMessage",
                   "sendAnonymousMessageStream"}

\* the set of the elements of a sequence
Range(f) == {f[i] : i \in DOMAIN f}

\* every message held by the durable store or by an ephemeral chat object
AllMessages ==
  UNION ({Range(dbChats[c].messages) : c \in DOMAIN dbChats}
         \cup {Range(anonHeap[c].messages) : c \in DOMAIN anonHeap})

\* the ids of the messages a chat holds, for the chat a request addressed
ChatMessagesOf(r) ==
  IF r.kind \in AnonymousKinds
  THEN (IF r.chatId \in DOMAIN anonHeap THEN anonHeap[r.chatId].messages ELSE <<>>)
  ELSE (IF r.chatId \in DOMAIN dbChats THEN dbChats[r.chatId].messages ELSE <<>>)

HasMessageId(id) == \E m \in AllMessages : m.id = id

\* the concatenation of the contents of the chunk events among evs[1..n]
RECURSIVE ConcatChunks(_, _)
ConcatChunks(evs, n) ==
  IF n = 0 THEN <<>>
  ELSE IF evs[n].type = "chunk"
       THEN ConcatChunks(evs, n - 1) \o evs[n].content
       ELSE ConcatChunks(evs, n - 1)

NumChunks(evs) == Cardinality({i \in DOMAIN evs : evs[i].type = "chunk"})
HasDone(evs) == \E i \in DOMAIN evs : evs[i].type = "done"

\* a text is empty or only whitespace
AllSpaces(text) == \A i \in DOMAIN text : text[i] = SP

\* the step in which a request arrives in slot s
Arrived(s) == nreq' = nreq + 1 /\ req'[s].rid = nreq'

\* C1: in both streaming send entry points, whenever a done event is emitted,
\* the concatenation in emission order of the contents of the chunk events
\* emitted before it equals the content of the message the done event carries.
DoneCarriesConcatenationOfChunks ==
  \A s \in Slots : \A i \in DOMAIN events[s] :
    events[s][i].type = "done" =>
      /\ req[s].kind \in StreamKinds
      /\ ConcatChunks(events[s], i - 1) = events[s][i].message.content

\* a done event was emitted after two chunks with different texts
DoneAfterTwoChunks ==
  \E s \in Slots :
    /\ req[s].kind \in StreamKinds
    /\ Len(events[s]) = 3
    /\ events[s][3].type = "done"
    /\ events[s][1].type = "chunk" /\ events[s][2].type = "chunk"
    /\ events[s][1].content # events[s][2].content

\* C2: in both streaming send entry points, if generation or the persistence
\* of the assistant message fails after the user message was persisted, the
\* last event is an error event, the channel is closed once, and the request
\* emits no done event, neither before nor after the error.
StreamFailureEndsWithErrorAndNoDone ==
  \A s \in Slots :
    LET r == req[s] IN
    /\ (r.kind \in StreamKinds /\ r.pc = "done"
        /\ r.failedAt \in {"generate", "persistAssistant"}) =>
          /\ events[s] # <<>>
          /\ events[s][Len(events[s])].type = "error"
          /\ ended[s] = 1
          /\ ~HasDone(events[s])
    /\ (r.kind \in StreamKinds /\ HasDone(events[s])) =>
          (r.pc = "done" /\ r.failedAt = "none")

\* a streaming request failed in generation after chunks had been written
StreamFailedAfterChunk ==
  \E s \in Slots :
    /\ req[s].kind \in StreamKinds /\ req[s].pc = "done"
    /\ req[s].failedAt = "generate"
    /\ NumChunks(events[s]) >= 1

\* the persistence of the streamed assistant message failed
StreamPersistFailed ==
  \E s \in Slots :
    /\ req[s].kind = "sendMessageStream" /\ req[s].pc = "done"
    /\ req[s].failedAt = "persistAssistant"

\* C3: in the four send entry points a request whose content is empty or only
\* whitespace is rejected as a bad request (status 400 for REST; for streaming
\* the single error event "Message content is required" and the end of the
\* channel) and leaves every chat of the durable store and of the ephemeral
\* registry, and the gateway's active model, unchanged.
BlankContentRejected ==
  \A s \in Slots :
    (Arrived(s) /\ req'[s].kind \in SendKinds /\ AllSpaces(req'[s].input)) =>
      /\ req'[s].pc = "done" /\ req'[s].failedAt = "validate"
      /\ UNCHANGED <<dbChats, anonymousChats, anonHeap, model>>
      /\ IF req'[s].kind \in RestSendKinds
         THEN resp'[s].status = 400 /\ events'[s] = <<>>
         ELSE /\ events'[s] = <<ErrorEvent("CONTENT_REQUIRED")>>
              /\ ended'[s] = 1
              /\ resp'[s] = NoResponse

BlankContentRejectedAlways == [][BlankContentRejected]_vars

\* a whitespace-only send was rejected while chats with messages existed
WhitespaceSendRejected ==
  \E s \in Slots :
    /\ req[s].kind \in SendKinds /\ req[s].pc = "done"
    /\ req[s].failedAt = "validate"
    /\ req[s].input = <<SP>>
    /\ AllMessages # {}
UnavailableCarriesRetryAfterAndChatId ==
  \A s \in Slots :
    (resp[s].status = 503 /\ req[s].kind \in CreateKinds \cup RestSendKinds
     /\ req[s].chatId \in (DOMAIN dbChats) \cup anonymousChats) =>
       /\ resp[s].retryAfter # Undefined
       /\ resp[s].chatId = req[s].chatId

\* C5: a 503 LLM_UNAVAILABLE response of createChat or createAnonymousChat
\* carries the id of the chat it created and no retryAfter hint; one of
\* sendMessage or sendAnonymousMessage carries the retryAfter hint of 60
\* seconds and no chat id.
UnavailableCarriesChatIdOrRetryAfter ==
  \A s \in Slots :
    LET r == req[s] IN
    (resp[s].status = 503 /\ r.kind \in CreateKinds \cup RestSendKinds) =>
      /\ resp[s].code = "LLM_UNAVAILABLE"
      /\ r.kind \in CreateKinds =>
           /\ resp[s].chatId = r.chatId
           /\ r.chatId \in (DOMAIN dbChats) \cup anonymousChats
           /\ resp[s].retryAfter = Undefined
      /\ r.kind \in RestSendKinds =>
           /\ resp[s].retryAfter = RetryAfterSeconds
           /\ resp[s].chatId = NoId

\* createChat answered 503 after the chat and its first message were stored
CreateChatAnsweredUnavailable ==
  \E s \in Slots :
    /\ req[s].kind = "createChat" /\ resp[s].status = 503
    /\ req[s].failedAt = "generate"
    /\ HasMessageId(RequestMsgId(req[s].rid))

\* the last event a streaming request wrote
LastEvent(s) == events[s][Len(events[s])]

StreamFailedAfterUserMessage(s) ==
  /\ req[s].kind \in StreamKinds /\ req[s].pc = "done"
  /\ req[s].role = USER
  /\ req[s].failedAt \in {"history", "generate", "persistAssistant"}

\* C6 as stated: when a streaming send fails after the user message was
\* persisted, the payload of its error event contains the id of the chat.
StreamErrorCarriesChatId ==
  \A s \in Slots :
    StreamFailedAfterUserMessage(s) =>
      /\ "chatId" \in DOMAIN LastEvent(s)
      /\ LastEvent(s).chatId = req[s].chatId

\* C6: when a streaming send fails after the user message was persisted, the
\* payload of its error event is the type and a fixed error text; it names
\* no chat.
StreamErrorCarriesOnlyText ==
  \A s \in Slots :
    StreamFailedAfterUserMessage(s) =>
      /\ DOMAIN LastEvent(s) = {"type", "error"}
      /\ LastEvent(s).type = "error"
      /\ LastEvent(s).error \in {"AI_UNAVAILABLE", "FAILED_TO_SEND"}

\* sendMessageStream failed in generation with the user message stored
StreamFailedWithUserMessageStored ==
  \E s \in Slots :
    /\ req[s].kind = "sendMessageStream" /\ req[s].pc = "done"
    /\ req[s].failedAt = "generate" /\ req[s].role = USER
    /\ HasMessageId(RequestMsgId(req[s].rid))

\* C7 as stated: if generation fails, the request has added no message of
\* role assistant to the chat.
NoAssistantMessageOnGenerationFailure ==
  \A s \in Slots :
    (req[s].pc = "done" /\ req[s].failedAt = "generate") =>
      \A m \in AllMessages :
        m.id \in {RequestMsgId(req[s].rid), ReplyMsgId(req[s].rid)} =>
          m.role # ASSISTANT

\* C7: a request appends its reply only after generation finished
\* successfully: while it has not, and when generation failed, no chat holds
\* a reply of that request. (The message of the request itself has the role
\* the request body names, which may be assistant.)
NoReplyBeforeGenerationSucceeded ==
  \A s \in Slots :
    LET r == req[s] IN
    (\/ r.pc \in {"addUser", "getMessages", "mcp", "gen", "stream", "persistA"}
     \/ r.pc = "done" /\ r.failedAt = "generate") =>
       ~HasMessageId(ReplyMsgId(r.rid))

\* generation failed for a request whose own stored message is of role
\* assistant
GenerationFailedForAssistantRoleRequest ==
  \E s \in Slots :
    /\ req[s].pc = "done" /\ req[s].failedAt = "generate"
    /\ \E m \in AllMessages :
         m.id = RequestMsgId(req[s].rid) /\ m.role = ASSISTANT
\* the last message of the chat a request addressed
LastMessageOf(r) == ChatMessagesOf(r)[Len(ChatMessagesOf(r))]

\* the last two messages of the chat are the message of the request and
\* `reply`, the assistant message the request appended
EndsWithRequestAndReply(r, reply) ==
  LET ms == ChatMessagesOf(r) IN
  /\ Len(ms) >= 2
  /\ ms[Len(ms)] = reply
  /\ reply.id = ReplyMsgId(r.rid) /\ reply.role = ASSISTANT
  /\ ms[Len(ms) - 1].id = RequestMsgId(r.rid)

\* C8: the four send requests go through validation, chat resolution, the
\* append of the user message, generation, the append of the assistant
\* message and the final response in that order: a request rejected in
\* validation or chat resolution, or not yet past them, has stored nothing;
\* while generation runs the message of the request is the last message of
\* the chat; the final response (REST body or done event) exists only when
\* the request has completed, and carries exactly the assistant message that
\* was appended after the message of the request.
SendStepsInOrder ==
  \A s \in Slots :
    LET r == req[s] IN
    r.kind \in SendKinds =>
      /\ (r.pc = "addUser"
          \/ (r.pc = "done" /\ r.failedAt \in {"validate", "authorize", "model"})) =>
            /\ ~HasMessageId(RequestMsgId(r.rid))
            /\ ~HasMessageId(ReplyMsgId(r.rid))
      /\ r.pc \in {"mcp", "gen", "stream", "persistA"} =>
            /\ ChatMessagesOf(r) # <<>>
            /\ LastMessageOf(r).id = RequestMsgId(r.rid)
            /\ resp[s] = NoResponse /\ ~HasDone(events[s])
      /\ resp[s].status = 200 =>
            /\ r.pc = "done" /\ r.failedAt = "none"
            /\ EndsWithRequestAndReply(r, resp[s].data)
      /\ HasDone(events[s]) =>
            /\ r.pc = "done" /\ r.failedAt = "none"
            /\ LastEvent(s).type = "done"
            /\ EndsWithRequestAndReply(r, LastEvent(s).message)
      /\ (r.pc = "done" /\ r.failedAt = "none") =>
            IF r.kind \in RestSendKinds
            THEN resp[s].status = 200
            ELSE HasDone(events[s]) /\ ended[s] = 1

\* sendMessage completed: its response carries the stored reply
SendMessageCompleted ==
  \E s \in Slots :
    /\ req[s].kind = "sendMessage" /\ req[s].pc = "done"
    /\ req[s].failedAt = "none"
    /\ resp[s].status = 200
    /\ resp[s].data \in AllMessages

\* C9 as stated: in the six entry points that accept a model name, a request
\* naming a model outside the allow-list is answered with the invalid-model
\* cause (400 INVALID_MODEL, or the error event with the gateway's message),
\* and no chat was created and no message appended by that request.
InvalidModelRejectedBeforePersistence ==
  \A s \in Slots :
    LET r == req[s] IN
    (r.pc = "done" /\ r.failedAt = "model") =>
      /\ IF r.kind \in StreamKinds
         THEN events[s] = <<ErrorEvent("MODEL_NOT_AVAILABLE")>>
         ELSE resp[s].status = 400 /\ resp[s].code = "INVALID_MODEL"
      /\ ~HasMessageId(RequestMsgId(r.rid))
      /\ r.kind \in CreateKinds =>
           r.rid \notin (DOMAIN dbChats) \cup anonymousChats

\* what C9 says of the four send entry points alone
InvalidModelRejectedBySend ==
  \A s \in Slots :
    LET r == req[s] IN
    (r.pc = "done" /\ r.failedAt = "model" /\ r.kind \in SendKinds) =>
      /\ r.modelParam \notin getAvailableModels
      /\ IF r.kind \in StreamKinds
         THEN events[s] = <<ErrorEvent("MODEL_NOT_AVAILABLE")>>
         ELSE resp[s].status = 400 /\ resp[s].code = "INVALID_MODEL"
      /\ ~HasMessageId(RequestMsgId(r.rid))

\* C10: switchModel with a name outside the allow-list throws the
\* invalid-model error and leaves the model that generation uses as it was;
\* with an allow-listed name it makes that model the active one.
SwitchModelStep ==
  \A s \in Slots :
    Arrived(s) =>
      /\ (req'[s].pc = "done" /\ req'[s].failedAt = "model") =>
           /\ req'[s].modelParam \notin getAvailableModels
           /\ req'[s].modelParam # NoModelParam
           /\ ActiveModel(model') = ActiveModel(model)
           /\ switchModel(model, req'[s].modelParam).threw
      /\ (req'[s].modelParam # NoModelParam
          /\ ~(req'[s].pc = "done" /\ req'[s].failedAt = "model")) =>
           /\ req'[s].modelParam \in getAvailableModels
           /\ model' = req'[s].modelParam
           /\ ~switchModel(model, req'[s].modelParam).threw

SwitchModelValidatesBeforeReplacing == [][SwitchModelStep]_vars

\* a request naming an unknown model was rejected while the active model was
\* one that an earlier request had switched to
InvalidSwitchKeptSwitchedModel ==
  \E s \in Slots :
    /\ req[s].pc = "done" /\ req[s].failedAt = "model"
    /\ req[s].modelParam = "not-a-model"
    /\ model = "gemini-2.5-pro"
(* =============== the gateway's complete(), on its own =============== *)
\* histories handed to the gateway
GwUser(id) == Message(id, 0, USER, <<"x">>, id)
GwAssistant(id) == Message(id, 0, ASSISTANT, <<"a">>, id)
GwSystem(id) == Message(id, 0, SYSTEM, <<"s">>, id)
GwHistories ==
  {<<>>, <<GwUser(1)>>, <<GwUser(1), GwAssistant(2)>>,
   <<GwUser(1), GwAssistant(2), GwUser(3)>>,
   <<GwSystem(0), GwUser(1)>>}

\* a turn of the conversation in the upstream format
Turn(role, text) == [role |-> role, parts |-> <<text>>]

\* convertMessagesToHistory: the system messages are left out, the others
\* become turns of 'user' or 'model', the last message included
RECURSIVE convertMessagesToHistory(_)
convertMessagesToHistory(messages) ==
  IF messages = <<>> THEN <<>>
  ELSE IF Head(messages).role = SYSTEM
       THEN convertMessagesToHistory(Tail(messages))
       ELSE <<Turn(IF Head(messages).role = USER THEN "user" ELSE "model",
                   Head(messages).content)>>
            \o convertMessagesToHistory(Tail(messages))

\* the system instruction and the fixed acknowledgement that precede a history
systemInstructionPair ==
  <<Turn("user", <<"systemInstruction">>), Turn("model", <<"Understood!">>)>>

\* historyWithSystemInstruction, the history of the session startChat opens
historyWithSystemInstruction(messages) ==
  systemInstructionPair \o convertMessagesToHistory(messages)

\* chat.sendMessage(lastMessage.content) on the session opened with that
\* history: the upstream model is given the history and then the message
sentUpstream(messages) ==
  historyWithSystemInstruction(messages)
    \o <<Turn("user", messages[Len(messages)].content)>>

\* errors of the upstream call: two transient ones and a fatal one
UpstreamErrors ==
  {UpstreamError("[503 Service Unavailable] The model is overloaded",
                 {"503 service unavailable", "service unavailable",
                  "the model is overloaded"}),
   UpstreamError("[429 Too Many Requests] Resource exhausted",
                 {"too many requests"}),
   UpstreamError("[400 Bad Request] API key not valid", {})}

\* the upstream call answered
OkOutcome == [kind |-> "ok", message |-> "ok", mentions |-> {}]

\* values of Math.random() * 1000
Jitters == {0, MaxJitter - 1}

\* a variant without the check of the last message
GwBeginUnchecked(g) == [g EXCEPT !.pc = "upstream", !.invocations = @ + 1]

\* sendMessageWithRetry(messages, attempt) up to its await of the upstream
\* call: the check of the last message throws inside the try, and the catch
\* does not retry that error (it rethrows it with the prefix 'Failed to get
\* response from Gemini: ')
GwBegin(g) ==
  IF LastIsUser(g.messages)
  THEN [g EXCEPT !.pc = "upstream", !.invocations = @ + 1,
                 !.conversation = sentUpstream(g.messages)]
  ELSE [g EXCEPT !.pc = "threw", !.error = lastMessageError(g.messages)]

\* GeminiService.sendMessage(messages): sendMessageWithRetry(messages, 0)
GwSendMessage ==
  \E messages \in GwHistories :
    /\ gw.pc = "idle"
    /\ gw' = GwBegin([NoCall EXCEPT !.messages = messages])
    /\ model' = initialize(model)
    /\ UNCHANGED <<handlerVars, tl, cleanupDue, components>>

\* the upstream call answers: lines 337-347
GwUpstreamAnswers ==
  \E text \in ReplyTexts :
    /\ gw.pc = "upstream"
    /\ gw' = [gw EXCEPT !.pc = "returned", !.result = text,
                        !.outcomes = Append(@, OkOutcome)]
    /\ UNCHANGED <<model, handlerVars, tl, cleanupDue, components>>

\* the upstream call throws: the catch, lines 349-363
GwUpstreamFails ==
  \E error \in UpstreamErrors :
    LET res == sendMessageWithRetry(OutcomeOf(error), gw.attempt, gw.messages)
        g == [gw EXCEPT !.outcomes = Append(@, error)]
    IN
    /\ gw.pc = "upstream"
    /\ UNCHANGED <<model, handlerVars, tl, cleanupDue, components>>
    /\ IF res = "again"
       THEN \E jitter \in Jitters :
              gw' = [g EXCEPT !.pc = "delay",
                       !.delays = Append(@, calculateRetryDelay(gw.attempt, jitter))]
       ELSE gw' = [g EXCEPT !.pc = "threw", !.error = error.message]

\* the delay has elapsed: sendMessageWithRetry(messages, attempt + 1)
GwDelayElapses ==
  /\ gw.pc = "delay"
  /\ gw' = GwBegin([gw EXCEPT !.attempt = @ + 1])
  /\ model' = initialize(model)
  /\ UNCHANGED <<handlerVars, tl, cleanupDue, components>>

InitGateway ==
  /\ Init!1 /\ Init!3 /\ Init!4 /\ Init!5 /\ Init!6 /\ Init!7 /\ Init!8
  /\ Init!9 /\ Init!10 /\ Init!11 /\ Init!12 /\ Init!13 /\ Init!14 /\ Init!15
  /\ model \in {NoModel} \cup getAvailableModels

NextGateway ==
  \/ GwSendMessage
  \/ GwUpstreamAnswers
  \/ GwUpstreamFails
  \/ GwDelayElapses

SpecGateway == InitGateway /\ [][NextGateway]_vars
(* ------------------- properties of complete() ------------------------- *)
\* an upstream outcome is a transient error (overload, rate limit, 5xx)
Transient(o) == o.kind = "error" /\ o.mentions # {}
Fatal(o) == o.kind = "error" /\ o.mentions = {}
GwFinished == gw.pc \in {"returned", "threw"}

\* C11: if the upstream fails k times with retryable errors and then
\* succeeds, k within the retry budget, complete() returns the successful
\* result after exactly k + 1 upstream invocations, having waited k times; if
\* an upstream failure is not retryable, complete() throws that error at once:
\* when it is the first failure, the upstream was invoked exactly once and no
\* delay was taken.
CompleteRetriesOnlyTransientErrors ==
  LET n == Len(gw.outcomes) IN
  /\ (GwFinished /\ n > 0 /\ gw.outcomes[n].kind = "ok") =>
       /\ gw.pc = "returned" /\ gw.result \in ReplyTexts
       /\ \A i \in 1 .. (n - 1) : Transient(gw.outcomes[i])
       /\ n - 1 <= retryAttempts
       /\ gw.invocations = n
       /\ Len(gw.delays) = n - 1
  /\ gw.pc = "returned" => (n > 0 /\ gw.outcomes[n].kind = "ok")
  /\ (n > 0 /\ Fatal(gw.outcomes[n])) =>
       /\ gw.pc = "threw" /\ gw.error = gw.outcomes[n].message
       /\ gw.invocations = n
       /\ Len(gw.delays) = n - 1
  /\ (n > 0 /\ Fatal(gw.outcomes[1])) =>
       (gw.invocations = 1 /\ gw.delays = <<>>)

\* complete() returned after two transient failures: three invocations
ReturnedAfterTwoRetries ==
  /\ gw.pc = "returned"
  /\ gw.invocations = 3
  /\ Transient(gw.outcomes[1]) /\ Transient(gw.outcomes[2])

ToolCall(toolName, arguments) ==
  [toolName |-> toolName, arguments |-> arguments]

\* the lists of tool calls extractToolCalls() finds in a tool-calling answer
ToolCallLists ==
  {<<ToolCall("t1", "x")>>, <<ToolCall("t2", "y"), ToolCall("t1", "x")>>}

\* what the model's first answer is: the call fails, a plain text, or a text
\* holding tool calls
Answer(kind, toolCalls) == [kind |-> kind, toolCalls |-> toolCalls]
FirstAnswers ==
  {Answer("throws", <<>>), Answer("text", <<>>)}
    \cup {Answer("calls", c) : c \in ToolCallLists}

\* what the model answers to a correction prompt: the call fails, the give-up
\* marker, a text without a tool call, or corrected tool calls
CorrectionAnswers ==
  FirstAnswers \cup {Answer("ERROR_UNABLE_TO_FIX", <<>>)}

\* the failures of the loop the orchestrator's catch receives
LoopFailures ==
  {"MCP tool execution failed after maximum retry attempts",
   "LLM was unable to correct the MCP tool call arguments",
   "LLM did not provide a corrected tool call",
   "correction call failed", "tools context failed"}

\* a variant of the catch that hands the loop's failure to the caller
processCatchRethrows(t, cause) ==
  [t EXCEPT !.pc = "done", !.cause = cause, !.outcome = "error",
            !.from = "loop"]

\* the catch of processWithMCPIntegration: the plain completion comes next
processCatch(t, cause) == [t EXCEPT !.pc = "fallback", !.cause = cause]

\* executeToolCallsAndRespond(toolCalls, ..., retryCount) is entered
executeToolCallsAndRespond(t, toolCalls, retryCount) ==
  [t EXCEPT !.pc = "exec", !.calls = toolCalls, !.idx = 1,
            !.retryCount = retryCount, !.executions = @ + 1]

\* a variant that allows one correction more
mayCorrectOnceMore(retryCount) == retryCount <= MAX_RETRIES

\* if (retryCount < MAX_RETRIES)
mayCorrect(retryCount) == retryCount < MAX_RETRIES

\* the catch of executeToolCallsAndRespond: a correction while the budget
\* lasts, else the error that ends the loop (it leaves every enclosing
\* retryWithLLMCorrection through its catch, and reaches processCatch)
executeCatch(t, error) ==
  IF mayCorrect(t.retryCount)
  THEN [t EXCEPT !.pc = "correctContext", !.error = error]
  ELSE processCatch([t EXCEPT !.error = error],
                    "MCP tool execution failed after maximum retry attempts")

\* the correction prompt: the first tool call of the list and the error
correctionPrompt(t) ==
  [toolName |-> t.calls[1].toolName, arguments |-> t.calls[1].arguments,
   error |-> t.error]

\* processWithMCPIntegration(message, chatHistory, mcpContextService) starts
\* and awaits the tools context
TlProcess ==
  /\ tl.pc = "idle"
  /\ tl' = [NoLoop EXCEPT !.pc = "context"]
  /\ UNCHANGED <<model, handlerVars, gw, cleanupDue, components>>

\* getMCPToolsContext() settles: line 853
TlContext ==
  \E ok \in BOOLEAN :
    /\ tl.pc = "context"
    /\ tl' = IF ok THEN [tl EXCEPT !.pc = "ask"]
             ELSE processCatch(tl, "tools context failed")
    /\ UNCHANGED <<model, handlerVars, gw, cleanupDue, components>>

\* the first completion settles: lines 873-886
TlAsk ==
  \E answer \in FirstAnswers :
    /\ tl.pc = "ask"
    /\ tl' = IF answer.kind = "throws"
             THEN processCatch(tl, "first call failed")
             ELSE IF answer.kind = "text"
             THEN [tl EXCEPT !.pc = "done", !.outcome = "answer",
                             !.from = "first"]
             ELSE executeToolCallsAndRespond(tl, answer.toolCalls, 0)
    /\ UNCHANGED <<model, handlerVars, gw, cleanupDue, components>>

\* mcpClient.callTool(...) settles for the next tool call: lines 973-987
TlCallTool ==
  \E ok \in BOOLEAN :
    /\ tl.pc = "exec" /\ tl.idx <= Len(tl.calls)
    /\ LET t == [tl EXCEPT !.toolRuns = @ + 1]
       IN tl' = IF ok THEN [t EXCEPT !.idx = @ + 1]
                ELSE executeCatch(t, <<"tool", tl.idx>>)
    /\ UNCHANGED <<model, handlerVars, gw, cleanupDue, components>>

\* the completion that interprets the tool results settles: lines 990-994
TlInterpret ==
  \E ok \in BOOLEAN :
    /\ tl.pc = "exec" /\ tl.idx > Len(tl.calls)
    /\ tl' = IF ok THEN [tl EXCEPT !.pc = "done", !.outcome = "answer",
                                   !.from = "tools"]
             ELSE executeCatch(tl, <<"llm", 0>>)
    /\ UNCHANGED <<model, handlerVars, gw, cleanupDue, components>>

\* retryWithLLMCorrection: getMCPToolsContext() settles, line 1024
TlCorrectionContext ==
  \E ok \in BOOLEAN :
    /\ tl.pc = "correctContext"
    /\ tl' = IF ok THEN [tl EXCEPT !.pc = "correct",
                                   !.prompt = correctionPrompt(tl)]
             ELSE processCatch(tl, "tools context failed")
    /\ UNCHANGED <<model, handlerVars, gw, cleanupDue, components>>

\* retryWithLLMCorrection: the correction completion settles, lines 1050-1084
TlCorrection ==
  \E answer \in CorrectionAnswers :
    /\ tl.pc = "correct"
    /\ LET t == [tl EXCEPT !.corrections = @ + 1]
       IN tl' =
            IF answer.kind = "throws"
            THEN processCatch(t, "correction call failed")
            ELSE IF answer.kind = "ERROR_UNABLE_TO_FIX"
            THEN processCatch(t,
                   "LLM was unable to correct the MCP tool call arguments")
            ELSE IF answer.kind = "text"
            THEN processCatch(t, "LLM did not provide a corrected tool call")
            ELSE executeToolCallsAndRespond(t, answer.toolCalls,
                                            t.retryCount + 1)
    /\ UNCHANGED <<model, handlerVars, gw, cleanupDue, components>>

\* sendMessageWithFallback(chatHistory) of the catch settles: line 890
TlFallback ==
  \E ok \in BOOLEAN :
    /\ tl.pc = "fallback"
    /\ tl' = [tl EXCEPT !.pc = "done", !.fallbacks = @ + 1,
                        !.outcome = IF ok THEN "answer" ELSE "error",
                        !.from = "fallback"]
    /\ UNCHANGED <<model, handlerVars, gw, cleanupDue, components>>

NextTools ==
  \/ TlProcess
  \/ TlContext
  \/ TlAsk
  \/ TlCallTool
  \/ TlInterpret
  \/ TlCorrectionContext
  \/ TlCorrection
  \/ TlFallback

SpecTools == Init /\ [][NextTools]_vars
(* ---------------- properties of the tool invocation loop ------------- *)
\* the length of the longest list of tool calls an answer holds
MaxCalls ==
  CHOOSE n \in 0..8 : /\ \A c \in ToolCallLists : Len(c) <= n
                      /\ \E c \in ToolCallLists : Len(c) = n

\* a number that every step of the loop decreases
TlRank(t) ==
  LET K == MaxCalls + 3
      left == (MAX_RETRIES - t.retryCount) * K
  IN CASE t.pc = "done" -> 0
       [] t.pc = "fallback" -> 1
       [] t.pc = "correct" -> 2 + left
       [] t.pc = "correctContext" -> 3 + left
       [] t.pc = "exec" -> 4 + left + (Len(t.calls) + 1 - t.idx)
       [] t.pc = "ask" -> 5 + (MAX_RETRIES + 1) * K
       [] t.pc = "context" -> 6 + (MAX_RETRIES + 1) * K
       [] OTHER -> 7 + (MAX_RETRIES + 1) * K

\* C13: whatever the model and the tool provider answer, one run of the tool
\* invocation loop enters executeToolCallsAndRespond at most MAX_RETRIES + 1
\* = 3 times and asks the model for a correction at most MAX_RETRIES = 2
\* times, and every step of the run brings it closer to its end.
ToolLoopBounded ==
  /\ [](/\ tl.executions <= MAX_RETRIES + 1
        /\ tl.corrections <= MAX_RETRIES
        /\ tl.retryCount <= MAX_RETRIES
        /\ TlRank(tl) >= 0)
  /\ [][TlRank(tl') < TlRank(tl)]_tl

\* the loop ran three executions and two corrections
ThreeExecutionsTwoCorrections ==
  /\ tl.pc = "done"
  /\ tl.executions = MAX_RETRIES + 1
  /\ tl.corrections = MAX_RETRIES

\* the ways the tool invocation loop fails
ToolExecutionErrors ==
  {"MCP tool execution failed after maximum retry attempts",
   "LLM was unable to correct the MCP tool call arguments",
   "LLM did not provide a corrected tool call"}

\* C14: when the tool invocation loop has failed (give-up marker, no corrected
\* tool call, or retry budget exhausted) the run does not end with that
\* failure: the plain completion over the chat history is made, once, and the
\* run's outcome is the outcome of that completion.
LoopFailureAnsweredByPlainCompletion ==
  tl.cause \in ToolExecutionErrors =>
    /\ tl.pc \in {"fallback", "done"}
    /\ tl.pc = "fallback" => tl.outcome = "none" /\ tl.fallbacks = 0
    /\ tl.pc = "done" => /\ tl.fallbacks = 1
                         /\ tl.from = "fallback"
                         /\ tl.outcome \in {"answer", "error"}

\* the model gave up correcting, and the plain completion answered
GaveUpThenPlainCompletionAnswered ==
  /\ tl.pc = "done"
  /\ tl.cause = "LLM was unable to correct the MCP tool call arguments"
  /\ tl.from = "fallback" /\ tl.outcome = "answer"

(* ============ the ephemeral chat registry and its cleanup ============= *)
\* a variant that measures the age from the last append
chatAgeSinceUpdate(chat, t) == t - chat.updatedAt

\* const chatAge = now - chat.createdAt.getTime()
chatAge(chat, t) == t - chat.createdAt

\* a variant that removes a chat at the age of the timeout already
isExpiredAtTimeout(chat, t) == chatAge(chat, t) >= ANONYMOUS_CHAT_TIMEOUT

\* if (chatAge > this.ANONYMOUS_CHAT_TIMEOUT)
isExpired(chat, t) == chatAge(chat, t) > ANONYMOUS_CHAT_TIMEOUT

\* the ids the timer callback collects at time t
chatsToDelete(t) == {c \in anonymousChats : isExpired(anonHeap[c], t)}

\* the callback of the cleanup timer runs, at or after the time it is due
AnonymousChatCleanup ==
  /\ now >= cleanupDue
  /\ anonymousChats' = anonymousChats \ chatsToDelete(now)
  /\ cleanupDue' = cleanupDue + CleanupInterval
  /\ UNCHANGED <<now, model, dbChats, anonHeap, req, resp, events, ended,
                 nreq, gw, tl, components>>

\* the clock advances by one step of ten minutes: no handler is in flight
\* (a request takes less than one step), and a due cleanup runs first
Tick ==
  /\ now < MaxTime /\ now < cleanupDue
  /\ \A s \in Slots : req[s].pc \in {"idle", "done"}
  /\ now' = now + 1
  /\ UNCHANGED <<model, dbChats, anonymousChats, anonHeap, req, resp, events,
                 ended, nreq, standalone>>

\* the requests followed together with the cleanup: a non-blank content of
\* role user, no model named, an upstream that answers or fails for good,
\* chunks of one text
PlainRequest(s) ==
  /\ req'[s].modelParam = NoModelParam
  /\ req'[s].role \in {"none", USER}
  /\ req'[s].attempt = 0
  /\ req'[s].failedAt # "validate"
  /\ \A i \in DOMAIN req'[s].fullContent : req'[s].fullContent[i] = "a"

NextCleanup ==
  \/ Tick
  \/ AnonymousChatCleanup
  \/ \E s \in SeqSlots : CreateAnonymousChat(s) /\ PlainRequest(s)
  \/ \E s \in SeqSlots : CreateAnonymousChatResume(s) /\ PlainRequest(s)
  \/ \E s \in SeqSlots : SendAnonymousMessage(s) /\ PlainRequest(s)
  \/ \E s \in SeqSlots : SendAnonymousMessageResume(s) /\ PlainRequest(s)
  \/ \E s \in SeqSlots : SendAnonymousMessageStream(s) /\ PlainRequest(s)
  \/ \E s \in SeqSlots : StreamChunk(s) /\ PlainRequest(s)
  \/ \E s \in SeqSlots : SendAnonymousMessageStreamEnd(s) /\ PlainRequest(s)
  \/ \E s \in SeqSlots : SendAnonymousMessageStreamError(s) /\ PlainRequest(s)

SpecCleanup == Init /\ [][NextCleanup]_vars

(* ---------------- properties of the registry's cleanup ---------------- *)
\* the step is a run of the cleanup timer's callback
CleanupRan == cleanupDue' # cleanupDue

\* the time at which the chat object c was created
CreatedAt(c) == anonHeap[c].createdAt

ArrivedAnonymousSend(s) ==
  /\ nreq' = nreq + 1
  /\ req'[s].rid = nreq'
  /\ req'[s].kind \in {"sendAnonymousMessage", "sendAnonymousMessageStream"}

\* the step answered slot s with the not-found outcome
AnsweredNotFound(s) ==
  /\ req'[s].pc = "done" /\ req'[s].failedAt = "authorize"
  /\ req'[s].kind = "sendAnonymousMessage" => resp'[s] = NotFound
  /\ req'[s].kind = "sendAnonymousMessageStream" =>
       /\ events'[s] = <<ErrorEvent("CHAT_NOT_FOUND")>>
       /\ ended'[s] = 1

\* C16, as stated: an anonymous send with a non-blank content that names a
\* chat id absent from the registry, or a chat older than the timeout, is
\* answered not-found and appends no message.
AbsentOrExpiredChatNotFound ==
  [][\A s \in Slots :
       ArrivedAnonymousSend(s) /\ req'[s].chatId # NoId =>
         LET c == req'[s].chatId IN
         (\/ c \notin anonymousChats
          \/ /\ c \in DOMAIN anonHeap
             /\ now' - CreatedAt(c) > ANONYMOUS_CHAT_TIMEOUT)
           => AnsweredNotFound(s) /\ anonHeap' = anonHeap]_vars

\* C16: an anonymous send with a non-blank content that names a chat id
\* absent from the registry is answered not-found and appends no message; a
\* chat that is in the registry is found, however old it is.
AbsentChatNotFound ==
  [][\A s \in Slots :
       ArrivedAnonymousSend(s) /\ req'[s].chatId # NoId =>
         LET c == req'[s].chatId IN
         /\ c \notin anonymousChats
              => AnsweredNotFound(s) /\ anonHeap' = anonHeap
         /\ c \in anonymousChats => req'[s].failedAt # "authorize"]_vars

\* a chat in the registry holds a message appended when the chat was older
\* than the timeout
MessageAppendedToExpiredChat ==
  \E c \in anonymousChats :
    \E i \in DOMAIN anonHeap[c].messages :
      anonHeap[c].messages[i].createdAt - CreatedAt(c) > ANONYMOUS_CHAT_TIMEOUT

\* C17: the ids a run of the cleanup removes are exactly those of the chats
\* whose age, now minus createdAt, exceeds the timeout, whatever was appended
\* to the chats and whenever; a run changes nothing else.
SweepRemovesExactlyTheOldChats ==
  [][CleanupRan =>
       /\ anonymousChats \ anonymousChats' =
            {c \in anonymousChats :
               now - CreatedAt(c) > ANONYMOUS_CHAT_TIMEOUT}
       /\ anonymousChats' \subseteq anonymousChats
       /\ anonHeap' = anonHeap]_vars

\* a chat that received a completed send within the last hour has been
\* removed by the cleanup
RemovedDespiteRecentAppend ==
  \E c \in (DOMAIN anonHeap) \ anonymousChats :
    /\ Len(anonHeap[c].messages) = 4
    /\ anonHeap[c].updatedAt > CreatedAt(c)
    /\ now - anonHeap[c].updatedAt <= ANONYMOUS_CHAT_TIMEOUT

(* ================= requests in flight at the same time ================ *)
\* the anonymous handlers and the REST send of a signed-in user, with the
\* handlers of two requests interleaving at their awaits
NextConcurrent ==
  \/ \E s \in Slots : CreateAnonymousChat(s)
  \/ \E s \in Slots : CreateAnonymousChatResume(s)
  \/ \E s \in Slots : SendAnonymousMessage(s)
  \/ \E s \in Slots : SendAnonymousMessageResume(s)
  \/ \E s \in Slots : SendAnonymousMessageStream(s)
  \/ \E s \in Slots : StreamChunk(s)
  \/ \E s \in Slots : SendAnonymousMessageStreamEnd(s)
  \/ \E s \in Slots : SendAnonymousMessageStreamError(s)
  \/ \E s \in Slots : SendMessage(s)
  \/ \E s \in Slots : SendMessageAddUser(s)
  \/ \E s \in Slots : SendMessageGetMessages(s)
  \/ \E s \in Slots : SendMessageMCP(s)
  \/ \E s \in Slots : SendMessageResume(s)
  \/ \E s \in Slots : SendMessagePersist(s)

\* an ephemeral chat that an earlier createAnonymousChat has stored
EarlierChatId == 0
EarlierChat ==
  NewAnonymousChat(<<Message(RequestMsgId(0), EarlierChatId, USER, <<"x">>, 0),
                     Message(ReplyMsgId(0), EarlierChatId, ASSISTANT,
                             <<"a">>, 0)>>, 0, 0)

InitConcurrent ==
  /\ Init!1 /\ Init!2 /\ Init!3
  /\ anonymousChats = {EarlierChatId}
  /\ anonHeap = (EarlierChatId :> EarlierChat)
  /\ Init!6 /\ Init!7 /\ Init!8 /\ Init!9 /\ Init!10 /\ Init!11 /\ Init!12
  /\ Init!13 /\ Init!14 /\ Init!15

SpecConcurrent == InitConcurrent /\ [][NextConcurrent]_vars

(* ------------- properties of requests in flight together -------------- *)
\* no handler is in flight
Quiescent == \A s \in Slots : req[s].pc \in {"idle", "done"}

\* the ids of the messages the ephemeral chat c holds
AnonymousMessageIds(c) ==
  {anonHeap[c].messages[i].id : i \in DOMAIN anonHeap[c].messages}

\* C18: once every request has finished, the user message and the assistant
\* message of each anonymous send that completed successfully are in the
\* message list of the chat it addressed, for every interleaving of the sends.
NoAppendLostByConcurrentSends ==
  Quiescent =>
    \A s \in Slots :
      (/\ req[s].pc = "done" /\ req[s].failedAt = "none"
       /\ req[s].kind \in {"sendAnonymousMessage",
                            "sendAnonymousMessageStream"})
        => {RequestMsgId(req[s].rid), ReplyMsgId(req[s].rid)}
             \subseteq AnonymousMessageIds(req[s].chatId)

\* the step starts a generation call of the request in slot s: the first
\* one, or a retried one
GenerationStarts(s) ==
  /\ req'[s].pc \in {"gen", "stream"}
  /\ \/ req[s].pc # req'[s].pc
     \/ req'[s].attempt = req[s].attempt + 1

MessagesOf(c) == anonHeap[c].messages

\* the step appends one message to the list ms, or none
AppendsAtMostOne(ms, after) ==
  \/ after = ms
  \/ Len(after) = Len(ms) + 1 /\ SubSeq(after, 1, Len(ms)) = ms

\* the step removes the last message of ms, the one request rid appended
RemovesOwnMessage(ms, after, rid) ==
  /\ Len(ms) = Len(after) + 1 /\ SubSeq(ms, 1, Len(after)) = after
  /\ ms[Len(ms)].id = RequestMsgId(rid)

MigrationRegistry ==
  (0 :> NewAnonymousChat(<<Message(0, 0, USER, <<"x">>, 0),
                           Message(1, 0, ASSISTANT, <<"a">>, 0)>>, 0, 0))
  @@ (1 :> NewAnonymousChat(<<Message(2, 1, USER, <<"y">>, 0)>>, 0, 0))

\* a chat of the request body: the caller's copy (id 2 is a chat that only
\* the client's session storage holds)
ClientChat(id) ==
  [id |-> id,
   messages |-> CASE id = 0 -> <<[role |-> USER, content |-> <<"x">>],
                                 [role |-> ASSISTANT, content |-> <<"a">>]>>
                  [] id = 1 -> <<[role |-> USER, content |-> <<"y">>]>>
                  [] OTHER -> <<[role |-> USER, content |-> <<"z">>],
                                [role |-> ASSISTANT, content |-> <<"b">>]>>]

\* req.body.chats: empty, one chat, or two chats (the same id may be listed
\* twice)
MigrateRequests ==
  {<<>>} \cup {<<ClientChat(i)>> : i \in 0 .. 2}
         \cup {<<ClientChat(i), ClientChat(j)>> : i, j \in 0 .. 2}

\* the id the store gives to the next chat
NewDbChatId(db) == Cardinality(DOMAIN db)

\* the id the store gives to the k-th message of a migrated chat
MigratedMsgId(chatId, k) == 100 * chatId + k

\* a variant that removes the chat from the registry whatever happened
migrateCatchDeletes(registry, anonymousChat) == registry \ {anonymousChat.id}

\* line 729-732: the catch of one chat's migration logs and goes on
migrateCatch(registry, anonymousChat) == registry

\* lines 726-728: if (this.anonymousChats.has(id)) this.anonymousChats.delete(id)
migrateDelete(registry, anonymousChat) ==
  IF anonymousChat.id \in registry THEN registry \ {anonymousChat.id}
  ELSE registry

\* the for loop of line 703 goes on to the next chat, or leaves the loop
migrateNext(m) ==
  IF m.idx < Len(m.chats)
  THEN [m EXCEPT !.pc = "create", !.idx = @ + 1, !.msgIdx = 0, !.chatId = NoId]
  ELSE [m EXCEPT !.pc = "respond"]

\* what the migration neither reads nor writes
mgOthers == <<now, model, anonHeap, req, resp, events, ended, nreq, gw, tl,
              cleanupDue, deployment, gs,
              api,
              hook,
              ex,
              rd,
              sse>>

\* the chat of the list being migrated
MgChat == mg.chats[mg.idx]

\* what one chat's migration leaves of the catch: the chat is recorded as
\* failed at `step`, and the loop goes on
MgCaught(step, next(_)) ==
  /\ mg' = next([mg EXCEPT !.threw = Append(@, <<mg.idx, step>>)])
  /\ anonymousChats' = migrateCatch(anonymousChats, MgChat)

\* lines 690-700: the request arrives with its list
MgArrive ==
  \E userId \in Users, chats \in MigrateRequests :
    /\ mg.pc = "idle"
    /\ UNCHANGED <<mgOthers, dbChats, anonymousChats>>
    /\ IF Len(chats) = 0
       THEN mg' = [NoMigration EXCEPT !.pc = "done", !.userId = userId,
                                      !.status = BadRequest("none").status,
                                      !.before = anonymousChats]
       ELSE mg' = [NoMigration EXCEPT !.pc = "create", !.userId = userId,
                                      !.chats = chats, !.idx = 1,
                                      !.before = anonymousChats]

\* line 706: databaseService.createChat executes
MgCreateChat ==
  \E dbOk \in BOOLEAN :
    /\ mg.pc = "create"
    /\ UNCHANGED mgOthers
    /\ IF dbOk
       THEN /\ dbChats' = dbCreateChat(dbChats, NewDbChatId(dbChats),
                                       mg.userId, now)
            /\ mg' = [mg EXCEPT !.pc = IF Len(MgChat.messages) = 0
                                       THEN "getChat" ELSE "addMessage",
                                !.chatId = NewDbChatId(dbChats),
                                !.created =
                                  Append(@, <<mg.idx, NewDbChatId(dbChats)>>),
                                !.msgIdx = 1]
            /\ UNCHANGED anonymousChats
       ELSE /\ MgCaught("create", migrateNext)
            /\ UNCHANGED dbChats

\* lines 709-716: databaseService.addMessage executes for one message
MgAddMessage ==
  \E dbOk \in BOOLEAN :
    LET message == MgChat.messages[mg.msgIdx] IN
    /\ mg.pc = "addMessage"
    /\ UNCHANGED mgOthers
    /\ IF dbOk
       THEN /\ dbChats' = dbAddMessage(dbChats,
                            Message(MigratedMsgId(mg.chatId, mg.msgIdx),
                                    mg.chatId, message.role, message.content,
                                    now), now)
            /\ mg' = [mg EXCEPT !.pc = IF mg.msgIdx < Len(MgChat.messages)
                                       THEN "addMessage" ELSE "getChat",
                                !.msgIdx = @ + 1]
            /\ UNCHANGED anonymousChats
       ELSE /\ MgCaught("addMessage", migrateNext)
            /\ UNCHANGED dbChats

\* lines 719-728: databaseService.getChat executes; the chat read back is
\* reported, and the ephemeral chat is removed from the registry
MgGetChat ==
  \E outcome \in {"chat", "null", "throws"} :
    /\ mg.pc = "getChat"
    /\ UNCHANGED <<mgOthers, dbChats>>
    /\ IF outcome = "throws"
       THEN MgCaught("getChat", migrateNext)
       ELSE /\ anonymousChats' = migrateDelete(anonymousChats, MgChat)
            /\ mg' = migrateNext(
                       [mg EXCEPT !.migratedChats =
                          IF outcome = "chat"
                          THEN Append(@, <<mg.idx, mg.chatId>>) ELSE @])

\* lines 735-739: the answer
MgRespond ==
  /\ mg.pc = "respond"
  /\ mg' = [mg EXCEPT !.pc = "done",
                      !.status = IF Len(mg.migratedChats) = 0
                                 THEN InternalError.status
                                 ELSE SuccessMessage(NoMessage).status]
  /\ UNCHANGED <<mgOthers, dbChats, anonymousChats>>

InitMigrate ==
  /\ Init!1 /\ Init!2 /\ Init!3
  /\ anonymousChats = DOMAIN MigrationRegistry
  /\ anonHeap = MigrationRegistry
  /\ Init!6 /\ Init!7 /\ Init!8 /\ Init!9 /\ Init!10 /\ Init!11 /\ Init!12
  /\ Init!13 /\ Init!14 /\ Init!15

NextMigrate ==
  \/ MgArrive
  \/ MgCreateChat
  \/ MgAddMessage
  \/ MgGetChat
  \/ MgRespond

SpecMigrate == InitMigrate /\ [][NextMigrate]_vars

(* ------------------- properties of the migration ---------------------- *)
\* the migration request has processed its list
MigrationProcessed == mg.pc = "done" /\ Len(mg.chats) > 0

\* the positions of the list at which chat id c is listed
ListingsOf(c) == {k \in 1 .. Len(mg.chats) : mg.chats[k].id = c}
ListedChats == {mg.chats[k].id : k \in 1 .. Len(mg.chats)}

\* role and content of the messages of a stored chat, in order
StoredMessages(d) ==
  [i \in 1 .. Len(dbChats[d].messages) |->
     [role |-> dbChats[d].messages[i].role,
      content |-> dbChats[d].messages[i].content]]

\* the k-th chat of the list was transferred: a chat created for it under
\* the caller holds all its messages, in order
Transferred(k) ==
  \E e \in Range(mg.created) :
    /\ e[1] = k
    /\ dbChats[e[2]].owner = mg.userId
    /\ StoredMessages(e[2]) = mg.chats[k].messages

\* the migration of the k-th chat of the list threw at some step
Threw(k) == \E e \in Range(mg.threw) : e[1] = k

\* the migration of the k-th chat of the list was begun
Attempted(k) ==
  \/ \E e \in Range(mg.created) : e[1] = k
  \/ Threw(k)

\* C21 as stated: after the list has been processed, a listed chat with a
\* transfer that succeeded is absent from the registry, a listed chat whose
\* transfers all failed is in the registry if it was there before, and
\* every chat of the list has been attempted.
TransferredChatsLeaveRegistry ==
  MigrationProcessed =>
    /\ \A c \in ListedChats :
         /\ (\E k \in ListingsOf(c) : Transferred(k)) => c \notin anonymousChats
         /\ (\A k \in ListingsOf(c) : ~Transferred(k)) /\ c \in mg.before
              => c \in anonymousChats
    /\ \A k \in 1 .. Len(mg.chats) :
         Attempted(k)

\* C21 amended: a listed chat is absent from the registry when one of its
\* migrations ran through without a throw (creation, every addMessage and
\* the reread of the chat), and then that chat was transferred; a listed chat
\* whose migrations all threw, at whatever step, is in the registry exactly
\* if it was there before; and every chat of the list has been attempted.
MigratedWithoutThrowLeavesRegistry ==
  MigrationProcessed =>
    /\ \A c \in ListedChats :
         /\ (\E k \in ListingsOf(c) : ~Threw(k)) => c \notin anonymousChats
         /\ (\A k \in ListingsOf(c) : Threw(k))
              => (c \in anonymousChats <=> c \in mg.before)
    /\ \A k \in 1 .. Len(mg.chats) :
         /\ ~Threw(k) => Transferred(k)
         /\ Attempted(k)
    /\ anonymousChats \subseteq mg.before
    /\ mg.before \ anonymousChats \subseteq ListedChats

\* witness: the first chat failed while its messages were added and is still
\* in the registry, the second was transferred and has left the registry
SecondChatMigratedAfterFirstFailed ==
  /\ MigrationProcessed /\ Len(mg.chats) = 2
  /\ mg.threw = <<<<1, "addMessage">>>>
  /\ mg.chats[1].id \in anonymousChats
  /\ Transferred(2)
  /\ mg.chats[2].id \in mg.before \ anonymousChats

(* ------------- the handlers under every configuration ----------------- *)
\* the process may have been started with any configuration
InitDeployments ==
  /\ Init!1 /\ Init!2 /\ Init!3 /\ Init!4 /\ Init!5 /\ Init!6 /\ Init!7
  /\ Init!8 /\ Init!9 /\ Init!10 /\ Init!11 /\ Init!12 /\ Init!13 /\ Init!14
  /\ deployment \in Deployments

NextDeployments ==
  \/ \E s \in SeqSlots : CreateChat(s) /\ PlainRequest(s)
  \/ \E s \in SeqSlots : CreateChatAddUser(s) /\ PlainRequest(s)
  \/ \E s \in SeqSlots : CreateChatResume(s) /\ PlainRequest(s)
  \/ \E s \in SeqSlots : CreateChatPersist(s) /\ PlainRequest(s)
  \/ \E s \in SeqSlots : CreateChatReload(s) /\ PlainRequest(s)
  \/ \E s \in SeqSlots : CreateAnonymousChat(s) /\ PlainRequest(s)
  \/ \E s \in SeqSlots : CreateAnonymousChatResume(s) /\ PlainRequest(s)
  \/ \E s \in SeqSlots : SendMessage(s) /\ PlainRequest(s)
  \/ \E s \in SeqSlots : SendMessageAddUser(s) /\ PlainRequest(s)
  \/ \E s \in SeqSlots : SendMessageGetMessages(s) /\ PlainRequest(s)
  \/ \E s \in SeqSlots : SendMessageMCP(s) /\ PlainRequest(s)
  \/ \E s \in SeqSlots : SendMessageResume(s) /\ PlainRequest(s)
  \/ \E s \in SeqSlots : SendMessagePersist(s) /\ PlainRequest(s)
  \/ \E s \in SeqSlots : SendAnonymousMessage(s) /\ PlainRequest(s)
  \/ \E s \in SeqSlots : SendAnonymousMessageResume(s) /\ PlainRequest(s)
  \/ \E s \in SeqSlots : SendMessageStream(s) /\ PlainRequest(s)
  \/ \E s \in SeqSlots : SendMessageStreamAddUser(s) /\ PlainRequest(s)
  \/ \E s \in SeqSlots : SendMessageStreamGetMessages(s) /\ PlainRequest(s)
  \/ \E s \in SeqSlots : SendMessageStreamEnd(s) /\ PlainRequest(s)
  \/ \E s \in SeqSlots : SendMessageStreamError(s) /\ PlainRequest(s)
  \/ \E s \in SeqSlots : SendMessageStreamPersist(s) /\ PlainRequest(s)
  \/ \E s \in SeqSlots : SendAnonymousMessageStream(s) /\ PlainRequest(s)
  \/ \E s \in SeqSlots : StreamChunk(s) /\ PlainRequest(s)
  \/ \E s \in SeqSlots : SendAnonymousMessageStreamEnd(s) /\ PlainRequest(s)
  \/ \E s \in SeqSlots : SendAnonymousMessageStreamError(s) /\ PlainRequest(s)

SpecDeployments == InitDeployments /\ [][NextDeployments]_vars

(* --------------- properties of the choice of generator ---------------- *)
\* the tool invocation loop is running for the request in slot s, or has run
ToolLoopInvoked(s) == req[s].pc = "mcp" \/ req[s].generator = "toolLoop"

\* the rule of the generating step: tool augmentation is enabled and a
\* delegated credential is present or not required
ToolAugmented(s) ==
  deployment.mcpEnabled /\ (req[s].oauthToken \/ ~deployment.oauthEnabled)

\* C22: during a streaming send request (authenticated or anonymous) the
\* tool invocation loop is never invoked, whatever the configuration and the
\* request's credential are: generation uses the token-streaming completion
\* only.
StreamingNeverInvokesToolLoop ==
  \A s \in Slots :
    req[s].kind \in StreamKinds =>
      /\ ~ToolLoopInvoked(s)
      /\ req[s].generator \in {"none", "stream"}
      /\ req[s].pc = "stream" => req[s].generator = "stream"

\* witness: an authenticated streaming request that carries a credential is
\* generating, in a deployment in which tool augmentation is enabled
StreamingWithCredentialAndToolsEnabled ==
  \E s \in Slots :
    /\ req[s].kind = "sendMessageStream" /\ req[s].pc = "stream"
    /\ req[s].oauthToken /\ deployment.mcpEnabled
    /\ Len(req[s].fullContent) > 0

\* a non-streaming request in slot s has started to generate its reply
GeneratesReply(s) ==
  req[s].kind \in RestSendKinds \cup CreateKinds /\ req[s].generator # "none"

\* C23 as stated: every non-streaming flow that generates a reply invokes the
\* tool invocation loop if and only if tool augmentation is enabled and a
\* delegated credential is present or not required; otherwise it invokes
\* the gateway directly.
EveryFlowFollowsToolRule ==
  \A s \in Slots :
    GeneratesReply(s) =>
      /\ ToolLoopInvoked(s) <=> ToolAugmented(s)
      /\ ~ToolAugmented(s) => req[s].generator = "complete"

\* C23 amended: sendMessage invokes the tool invocation loop if and only if
\* tool augmentation is enabled and a delegated credential is present or not
\* required, and the gateway directly otherwise; createChat,
\* createAnonymousChat and sendAnonymousMessage always invoke the gateway
\* directly.
OnlySendMessageFollowsToolRule ==
  \A s \in Slots :
    GeneratesReply(s) =>
      IF req[s].kind = "sendMessage"
      THEN /\ ToolLoopInvoked(s) <=> ToolAugmented(s)
           /\ ~ToolAugmented(s) => req[s].generator = "complete"
      ELSE ~ToolLoopInvoked(s) /\ req[s].generator = "complete"

\* witness: sendMessage runs the tool loop without a credential, in a
\* deployment in which none is required
ToolLoopWithoutCredential ==
  \E s \in Slots :
    /\ req[s].kind = "sendMessage" /\ req[s].pc = "mcp"
    /\ ~req[s].oauthToken /\ deployment = Deployment(TRUE, FALSE)

(* ------------------- the caller closes the channel -------------------- *)
\* the caller closes the channel of the streaming request in slot s while
\* fragments are forwarded: nothing in the handlers listens for it (no
\* 'close' listener on req or res, no test of res.writableEnded), so only the
\* number of events written so far is noted
CallerDisconnects(s) ==
  /\ req[s].kind \in StreamKinds /\ req[s].pc = "stream"
  /\ req[s].closedAt = NoId
  /\ SetReq(s, [req[s] EXCEPT !.closedAt = Len(events[s])])
  /\ UNCHANGED <<now, model, dbChats, anonymousChats, anonHeap, resp, events,
                 ended, nreq, standalone>>

NextDisconnect ==
  \/ \E s \in SeqSlots : CallerDisconnects(s)
  \/ \E s \in SeqSlots : CreateAnonymousChat(s) /\ PlainRequest(s)
  \/ \E s \in SeqSlots : CreateAnonymousChatResume(s) /\ PlainRequest(s)
  \/ \E s \in SeqSlots : SendMessageStream(s) /\ PlainRequest(s)
  \/ \E s \in SeqSlots : SendMessageStreamAddUser(s) /\ PlainRequest(s)
  \/ \E s \in SeqSlots : SendMessageStreamGetMessages(s) /\ PlainRequest(s)
  \/ \E s \in SeqSlots : SendMessageStreamEnd(s) /\ PlainRequest(s)
  \/ \E s \in SeqSlots : SendMessageStreamError(s) /\ PlainRequest(s)
  \/ \E s \in SeqSlots : SendMessageStreamPersist(s) /\ PlainRequest(s)
  \/ \E s \in SeqSlots : SendAnonymousMessageStream(s) /\ PlainRequest(s)
  \/ \E s \in SeqSlots : StreamChunk(s) /\ PlainRequest(s)
  \/ \E s \in SeqSlots : SendAnonymousMessageStreamEnd(s) /\ PlainRequest(s)
  \/ \E s \in SeqSlots : SendAnonymousMessageStreamError(s) /\ PlainRequest(s)

SpecDisconnect == Init /\ [][NextDisconnect]_vars

(* ---------------- properties of a closed channel ---------------------- *)
\* the caller has closed the channel of the request in slot s
Disconnected(s) == req[s].closedAt # NoId

\* the text accumulated when the caller closed the channel
TextAtDisconnect(s) == ConcatChunks(events[s], req[s].closedAt)

IsPrefix(a, b) == Len(a) <= Len(b) /\ SubSeq(b, 1, Len(a)) = a

\* C24: once the caller has closed the channel of a streaming send request
\* mid-stream, no further chunk event is written for that request, and when
\* the upstream stream has ended the text accumulated up to the closure is
\* persisted in the assistant message of the request.
NoChunkWrittenAfterDisconnect ==
  \A s \in Slots :
    Disconnected(s) =>
      /\ \A i \in (req[s].closedAt + 1) .. Len(events[s]) :
           events[s][i].type # "chunk"
      /\ req[s].pc = "done" /\ req[s].failedAt = "none" =>
           \E m \in AllMessages :
             /\ m.id = ReplyMsgId(req[s].rid) /\ m.role = ASSISTANT
             /\ IsPrefix(TextAtDisconnect(s), m.content)

(* ------------------ the gateway's sendMessageStream ------------------- *)
\* what the generator function neither reads nor writes
gsOthers == <<handlerVars, gw, tl, cleanupDue, mg, deployment,
              api,
              hook,
              ex,
              rd,
              sse>>

\* a variant that yields every chunk's text, empty or not
yieldTextAlways(yielded, text) == Append(yielded, text)

\* lines 293-298: const text = chunk.text(); if (text) yield text
yieldText(yielded, text) ==
  IF Truthy(text) THEN Append(yielded, text) ELSE yielded

\* the consumer pulls the generator for the first time: lines 259-290 up to
\* the await of chat.sendMessageStream
GsSendMessageStream ==
  \E messages \in GwHistories :
    /\ gs.pc = "idle"
    /\ model' = initialize(model)
    /\ gs' = IF LastIsUser(messages)
             THEN [NoStream EXCEPT !.pc = "upstream", !.messages = messages,
                                   !.invocations = @ + 1,
                                   !.conversation = sentUpstream(messages)]
             ELSE [NoStream EXCEPT !.pc = "threw", !.messages = messages,
                          !.error = lastMessageError(messages)]
    /\ UNCHANGED gsOthers

\* the upstream stream delivers a chunk: one iteration of the loop 293-298
GsUpstreamChunk ==
  \E text \in UpstreamTexts :
    /\ gs.pc = "upstream"
    /\ Len(gs.upstream) < MaxFragments
    /\ gs' = [gs EXCEPT !.upstream = Append(@, text),
                        !.yielded = yieldText(@, text)]
    /\ UNCHANGED <<model, gsOthers>>

\* the upstream stream ends: the loop and the generator return
GsUpstreamEnds ==
  /\ gs.pc = "upstream"
  /\ gs' = [gs EXCEPT !.pc = "returned"]
  /\ UNCHANGED <<model, gsOthers>>

\* the upstream call or its stream throws: nothing catches it in the
\* generator, so the consumer's pull rejects with this error
GsUpstreamFails ==
  \E error \in UpstreamErrors :
    /\ gs.pc = "upstream"
    /\ gs' = [gs EXCEPT !.pc = "threw", !.error = error.message]
    /\ UNCHANGED <<model, gsOthers>>

InitStream ==
  /\ Init!1 /\ Init!3 /\ Init!4 /\ Init!5 /\ Init!6 /\ Init!7 /\ Init!8
  /\ Init!9 /\ Init!10 /\ Init!11 /\ Init!12 /\ Init!13 /\ Init!14 /\ Init!15
  /\ model \in {NoModel} \cup getAvailableModels

NextStream ==
  \/ GsSendMessageStream
  \/ GsUpstreamChunk
  \/ GsUpstreamEnds
  \/ GsUpstreamFails

SpecStream == InitStream /\ [][NextStream]_vars

(* ---------------- properties of sendMessageStream --------------------- *)
\* the non-empty texts of a sequence of chunks, in order
RECURSIVE NonEmptyTexts(_)
NonEmptyTexts(chunks) ==
  IF chunks = <<>> THEN <<>>
  ELSE IF Head(chunks) = <<>> THEN NonEmptyTexts(Tail(chunks))
       ELSE <<Head(chunks)>> \o NonEmptyTexts(Tail(chunks))

\* C25 as stated: every invocation issues exactly one upstream generation
\* call, and whether the upstream fails or ends after k fragments, the
\* consumer has received exactly those k fragments, in order.
StreamYieldsExactlyUpstreamFragments ==
  gs.pc # "idle" =>
    /\ gs.invocations = 1
    /\ gs.yielded = gs.upstream

\* C25 amended: an invocation issues one upstream generation call when the
\* last message is from the user and none otherwise (it throws at once), and
\* never a second one; at every moment, and so when the upstream has failed
\* or ended after k chunks, the consumer has received exactly the non-empty
\* texts among those k chunks, in order, and nothing else; an upstream
\* failure reaches the consumer as the upstream's own error.
StreamYieldsNonEmptyUpstreamTexts ==
  gs.pc # "idle" =>
    /\ gs.invocations = (IF LastIsUser(gs.messages) THEN 1 ELSE 0)
    /\ gs.yielded = NonEmptyTexts(gs.upstream)
    /\ gs.invocations = 0 => gs.pc = "threw" /\ gs.upstream = <<>>
    /\ gs.pc = "threw" /\ gs.invocations = 1 =>
         gs.error \in {e.message : e \in UpstreamErrors}
    /\ gs.pc = "returned" => gs.error = "none"

\* witness: the upstream failed with a transient error after two chunks, one
\* of them empty; the consumer received the other one and then the error
StreamFailedAfterAnEmptyChunk ==
  /\ gs.pc = "threw" /\ Len(gs.upstream) = 2 /\ Len(gs.yielded) = 1
  /\ gs.upstream[1] = <<>>
  /\ \E e \in UpstreamErrors : isRetryableError(e) /\ e.message = gs.error

(* ------------------- the frontend's ApiService ------------------------ *)
\* what the ApiService neither reads nor writes
apiOthers == <<model, handlerVars, gw, tl, cleanupDue, mg, deployment, gs,
              hook,
              ex,
              rd,
              sse>>

\* readings of Math.floor(Date.now() / 1000), and expiry times, in seconds
Seconds == 1 .. 3

\* the tokens the browser may hold: a JWT with its expiry and, when OAuth is
\* enabled, the expiry of the OAuth token; or a string that does not decode
StoredPayloads ==
  {Payload(e, o) : e \in Seconds, o \in Seconds \cup {Undefined}}
  \cup {NullPayload}

\* authService.isTokenExpired(): the JWT or the OAuth token has expired
isTokenExpired(payload, t) ==
  \/ ~payload.decoded
  \/ payload.exp <= t
  \/ payload.oauthTokenExpiry # Undefined /\ payload.oauthTokenExpiry <= t

\* a variant that blames the OAuth token whenever the payload has its expiry
isOAuthExpiredIfPresent(payload, t) ==
  payload.decoded /\ payload.oauthTokenExpiry # Undefined

\* lines 145-146: payload?.oauthTokenExpiry &&
\*                Math.floor(Date.now() / 1000) >= payload.oauthTokenExpiry
isOAuthExpired(payload, t) ==
  /\ payload.decoded
  /\ payload.oauthTokenExpiry # Undefined /\ payload.oauthTokenExpiry # 0
  /\ t >= payload.oauthTokenExpiry

\* lines 152-158: the failure returned without a request
expiredResult(payload, t) ==
  ApiResult(FALSE, IF isOAuthExpired(payload, t) THEN "OAUTH_TOKEN_EXPIRED"
                   ELSE "TOKEN_EXPIRED")

\* what the backend may answer: status and the error field of the body;
\* status 0 stands for a fetch that rejects
BackendAnswers ==
  {[status |-> 0, error |-> "none"], [status |-> 200, error |-> "none"],
   [status |-> 401, error |-> "OAUTH_TOKEN_EXPIRED"],
   [status |-> 401, error |-> "INVALID_TOKEN"],
   [status |-> 503, error |-> "LLM_UNAVAILABLE"]}

\* lines 181-215: the result of request() for an answer of the backend
requestResult(answer) ==
  CASE answer.status = 0 -> ApiResult(FALSE, "NETWORK_ERROR")
    [] answer.status = 401 ->
         ApiResult(FALSE, IF answer.error = "OAUTH_TOKEN_EXPIRED"
                          THEN "OAUTH_TOKEN_EXPIRED" ELSE "UNAUTHORIZED")
    [] answer.status >= 300 -> ApiResult(FALSE, answer.error)
    [] OTHER -> ApiResult(TRUE, "none")

\* a call of the ApiService begins at clock reading t: the token the browser
\* holds is the one left by earlier calls, or one stored by a login since
ApiBegin(kind, t, hasToken, payload) ==
  [NoApiCall EXCEPT !.kind = kind, !.clock = t, !.hasToken = hasToken,
                    !.hadToken = hasToken, !.payload = payload,
                    !.calls = api.calls + 1]

\* the token a call may find: the one the browser holds; when it holds none,
\* none or the token of a login since the last call
ApiTokenAtCall(hasToken, payload) ==
  \/ ~hasToken /\ ~api.hasToken /\ payload = NullPayload
  \/ hasToken /\ (api.hasToken => payload = api.payload)

\* ApiService.request (lines 136-172) up to the await of fetch
ApiRequest ==
  \E t \in Seconds, hasToken \in BOOLEAN, payload \in StoredPayloads :
    LET a == ApiBegin("request", t, hasToken, payload) IN
    /\ api.pc \in {"idle", "done"} /\ api.calls < MaxRequests
    /\ ApiTokenAtCall(hasToken, payload)
    /\ api' = IF hasToken /\ isTokenExpired(payload, t)
              THEN [a EXCEPT !.pc = "done", !.hasToken = FALSE,
                             !.result = expiredResult(payload, t)]
              ELSE [a EXCEPT !.pc = "fetch", !.sent = 1]
    /\ UNCHANGED apiOthers

\* ApiService.request (lines 172-226): fetch has settled
ApiRequestSettles ==
  \E answer \in BackendAnswers :
    /\ api.pc = "fetch" /\ api.kind = "request"
    /\ api' = [api EXCEPT !.pc = "done", !.status = answer.status,
                          !.hasToken = IF answer.status = 401 THEN FALSE ELSE @,
                          !.result = requestResult(answer)]
    /\ UNCHANGED apiOthers

\* ApiService.sendMessageStream (lines 318-339) up to the await of fetch
ApiSendMessageStream ==
  \E t \in Seconds, hasToken \in BOOLEAN, payload \in StoredPayloads :
    LET a == ApiBegin("stream", t, hasToken, payload) IN
    /\ api.pc \in {"idle", "done"} /\ api.calls < MaxRequests
    /\ ApiTokenAtCall(hasToken, payload)
    /\ api' = IF hasToken /\ isTokenExpired(payload, t)
              THEN [a EXCEPT !.pc = "done", !.hasToken = FALSE,
                             !.result = ApiResult(FALSE, "SESSION_EXPIRED")]
              ELSE [a EXCEPT !.pc = "fetch", !.sent = 1]
    /\ UNCHANGED apiOthers

\* ApiService.sendMessageStream (lines 339-404): fetch has settled and the
\* events of the body, if any, have been handed to the callbacks
ApiStreamSettles ==
  \E answer \in BackendAnswers, ending \in {"done", "error"} :
    /\ api.pc = "fetch" /\ api.kind = "stream"
    /\ api' = [api EXCEPT !.pc = "done", !.status = answer.status,
                 !.result =
                   CASE answer.status = 0 -> ApiResult(FALSE, "NETWORK_ERROR")
                     [] answer.status >= 300 -> ApiResult(FALSE, answer.error)
                     [] ending = "done" -> ApiResult(TRUE, "none")
                     [] OTHER -> ApiResult(FALSE, "AI_UNAVAILABLE")]
    /\ UNCHANGED apiOthers

NextApi ==
  \/ ApiRequest
  \/ ApiRequestSettles
  \/ ApiSendMessageStream
  \/ ApiStreamSettles

SpecApi == Init /\ [][NextApi]_vars

(* -------------------- properties of the ApiService -------------------- *)
\* the call that has returned found a stored token that was expired
ReturnedWithExpiredToken ==
  api.pc = "done" /\ api.hadToken /\ isTokenExpired(api.payload, api.clock)

\* the decoded payload has an oauthTokenExpiry that is not in the future
OAuthExpiryNotInFuture ==
  /\ api.payload.decoded /\ api.payload.oauthTokenExpiry # Undefined
  /\ api.payload.oauthTokenExpiry <= api.clock

\* the token was removed, no request was sent, and the failure names the
\* token that expired
ExpiredTokenReported ==
  /\ ~api.hasToken /\ api.sent = 0 /\ ~api.result.success
  /\ api.result.error = (IF OAuthExpiryNotInFuture THEN "OAUTH_TOKEN_EXPIRED"
                         ELSE "TOKEN_EXPIRED")

\* the request was sent, and the token was removed only on a 401
SentAndTokenKeptUnless401 ==
  /\ api.sent = 1
  /\ api.hadToken /\ ~api.hasToken => api.status = 401

\* C26 as stated: every authenticated call of the ApiService that finds an
\* expired token removes it, sends nothing and fails with
\* OAUTH_TOKEN_EXPIRED or TOKEN_EXPIRED; with a token that is not expired the
\* request is sent and the token is removed only if the answer is a 401.
EveryCallReportsExpiredToken ==
  /\ ReturnedWithExpiredToken => ExpiredTokenReported
  /\ api.pc = "done" /\ ~ReturnedWithExpiredToken => SentAndTokenKeptUnless401

\* C26 amended: the calls that go through ApiService.request behave as
\* stated; the streaming call sendMessageStream also removes an expired token
\* and sends nothing, but reports the same session-expired text to its error
\* callback whichever token expired, and with a token that is not expired it
\* sends the request and never removes the token, not even on a 401.
RequestCallsReportExpiredToken ==
  /\ ReturnedWithExpiredToken =>
       IF api.kind = "request" THEN ExpiredTokenReported
       ELSE /\ ~api.hasToken /\ api.sent = 0
            /\ api.result = ApiResult(FALSE, "SESSION_EXPIRED")
  /\ api.pc = "done" /\ ~ReturnedWithExpiredToken =>
       /\ SentAndTokenKeptUnless401
       /\ api.kind = "stream" => api.hasToken = api.hadToken
       /\ api.kind = "request" /\ api.status = 401 => ~api.hasToken

\* witness: a second call through request() found a JWT that is still valid
\* with an OAuth token that has expired: it removed the token, sent nothing
\* and returned OAUTH_TOKEN_EXPIRED
ValidJwtWithExpiredOAuthToken ==
  /\ api.pc = "done" /\ api.kind = "request" /\ api.calls = 2
  /\ api.hadToken /\ ~api.hasToken /\ api.sent = 0
  /\ api.payload.decoded /\ api.payload.exp > api.clock
  /\ api.payload.oauthTokenExpiry # Undefined
  /\ api.payload.oauthTokenExpiry <= api.clock
  /\ api.result = ApiResult(FALSE, "OAUTH_TOKEN_EXPIRED")

(* ------------------------- the useChat hook ---------------------------
   hooks/useChat.ts and its typewriter variant.  React state is modelled by
   the value the next render shows (isLoading, isStreaming, error) and, for
   the message list, by the rendered list `messages` and the queue of
   updates dispatched since the last render.  An updater function given to
   setMessages is run by React at the next render; when the component has
   no pending update React may run it at the call instead (the eager
   state), so a run at the call is one of the two outcomes of a dispatch
   made while nothing is pending.  The refs are plain mutable cells. *)
hookOthers == <<model, handlerVars, gw, tl, cleanupDue, mg, deployment, gs,
                api,
              ex,
              rd,
              sse>>

\* the sends of one mounted component
HookSends == 1 .. 2

\* a message of the list: the temporary user message (temp_...), the
\* placeholder (streaming_...) or the final message sent by the server; the
\* content is counted in chunks
Msg(id, send, content) == [id |-> id, send |-> send, content |-> content]

\* an update of the message list waiting for the next render
Update(op, send, n) == [op |-> op, send |-> send, n |-> n, value |-> <<>>]

\* msg.id === streamingMessageIdRef.current
isStreamingMessage(msg, ref) == msg.id = "streaming" /\ msg.send = ref

MapMessages(prev, f(_)) == [i \in DOMAIN prev |-> f(prev[i])]

\* the updater of onDone (and of the finalizing typewriter tick):
\* prev.map(msg => msg.id === streamingMessageIdRef.current ? finalMessage : msg)
onDoneUpdater(u, prev, h) ==
  LET replace(msg) == IF isStreamingMessage(msg, h.streamingMessageIdRef)
                      THEN Msg("final", u.send, u.n) ELSE msg
  IN  MapMessages(prev, replace)

\* the updater functions of sendMessage, run on the list prev while the refs
\* have the values of h
applyUpdater(u, prev, h) ==
  CASE u.op = "value" -> u.value
    [] u.op = "append" ->
         prev \o <<Msg("temp", u.send, 0), Msg("streaming", u.send, 0)>>
    [] u.op = "flush" ->
         LET add(msg) ==
               IF isStreamingMessage(msg, h.streamingMessageIdRef)
               THEN [msg EXCEPT !.content = msg.content + u.n] ELSE msg
         IN  MapMessages(prev, add)
    [] u.op = "display" ->
         LET show(msg) ==
               IF isStreamingMessage(msg, h.streamingMessageIdRef)
               THEN [msg EXCEPT !.content = h.displayedText] ELSE msg
         IN  MapMessages(prev, show)
    [] u.op = "replace" -> onDoneUpdater(u, prev, h)
    [] u.op = "remove" ->
         LET keep(msg) ==
               /\ ~isStreamingMessage(msg, h.streamingMessageIdRef)
               /\ ~(msg.id = "temp" /\ msg.send = u.send)
         IN  SelectSeq(prev, keep)

\* setMessages(updater) called while the refs have the values of h: the
\* updater is queued for the next render, or (eager, possible only while
\* nothing is pending) run at once and its result queued
setMessages(h, u, eager) ==
  IF eager
  THEN Append(h.queue, [Update("value", u.send, u.n) EXCEPT
                          !.value = applyUpdater(u, h.messages, h)])
  ELSE Append(h.queue, u)

\* the outcomes of a dispatch: at the call only if nothing is pending
EagerChoices(h) == IF h.lanes \/ h.queue # <<>> THEN {FALSE} ELSE BOOLEAN

RECURSIVE renderMessages(_, _, _)
\* the render runs the queued updates in order
renderMessages(queue, prev, h) ==
  IF queue = <<>> THEN prev
  ELSE renderMessages(Tail(queue), applyUpdater(Head(queue), prev, h), h)

\* sendMessage: ChatInterface submits only while isLoading is false; the
\* chat is open and the content is not blank
HkSendMessage ==
  /\ ~hook.isLoading /\ hook.stream # "open"
  /\ hook.sends + 1 \in HookSends
  /\ \E eager \in EagerChoices(hook) :
       LET n == hook.sends + 1
           h == [hook EXCEPT !.pendingText = 0, !.displayedText = 0,
                             !.streamingComplete = FALSE,
                             !.finalMessage = FALSE,
                             !.streamingMessageIdRef = n]
       IN  hook' = [h EXCEPT !.sends = n, !.chunks = 0, !.stream = "open",
                             !.isLoading = TRUE, !.isStreaming = FALSE,
                             !.error = FALSE, !.lanes = TRUE,
                             !.queue = setMessages(hook,
                                         Update("append", n, 0), eager)]
  /\ UNCHANGED hookOthers

\* onChunk: a chunk event of the stream
HkChunk ==
  /\ hook.stream = "open" /\ hook.chunks < MaxFragments
  /\ LET h == [hook EXCEPT !.chunks = @ + 1, !.isStreaming = TRUE,
                           !.lanes = @ \/ ~hook.isStreaming]
     IN  hook' = IF hook.variant = "raf"
                 THEN [h EXCEPT !.chunkBuffer = @ + 1, !.rafId = TRUE]
                 ELSE [h EXCEPT !.pendingText = @ + 1,
                                !.typewriterInterval = TRUE]
  /\ UNCHANGED hookOthers

\* flushBuffer: the animation frame requested by onChunk
HkFlushBuffer ==
  /\ hook.rafId
  /\ \E eager \in EagerChoices(hook) :
       hook' = IF hook.chunkBuffer > 0
               THEN [hook EXCEPT !.chunkBuffer = 0, !.rafId = FALSE,
                                 !.lanes = TRUE,
                                 !.queue = setMessages(hook,
                                   Update("flush", hook.sends,
                                          hook.chunkBuffer), eager)]
               ELSE [hook EXCEPT !.rafId = FALSE]
  /\ UNCHANGED hookOthers

\* the statements shared by onDone and the finalizing typewriter tick
finalize(h, eager) ==
  [h EXCEPT !.queue = setMessages(h, Update("replace", h.sends, h.chunks),
                                  eager),
            !.streamingMessageIdRef = NoId, !.lanes = TRUE,
            !.isStreaming = FALSE, !.isLoading = FALSE]

\* typewriterTick: a tick of the interval started by the first chunk
HkTypewriterTick ==
  /\ hook.typewriterInterval
  /\ \E eager \in EagerChoices(hook) :
       hook' =
         IF hook.pendingText > 0
         THEN LET h == [hook EXCEPT !.pendingText = @ - 1,
                                    !.displayedText = @ + 1]
              IN  [h EXCEPT !.lanes = TRUE,
                            !.queue = setMessages(h,
                              Update("display", hook.sends, 0), eager)]
         ELSE IF hook.streamingComplete /\ hook.finalMessage
         THEN finalize([hook EXCEPT !.typewriterInterval = FALSE], eager)
         ELSE hook
  /\ UNCHANGED hookOthers

\* onDone: the done event of the stream, with the stored message
HkDone ==
  /\ hook.stream = "open"
  /\ \E eager \in EagerChoices(hook) :
       hook' =
         IF hook.variant = "raf"
         THEN finalize([hook EXCEPT !.stream = "done", !.rafId = FALSE,
                                    !.chunkBuffer = 0], eager)
         ELSE LET h == [hook EXCEPT !.stream = "done",
                                    !.streamingComplete = TRUE,
                                    !.finalMessage = TRUE]
              IN  IF ~hook.typewriterInterval THEN finalize(h, eager) ELSE h
  /\ UNCHANGED hookOthers

\* onError: an error event, a response that is not ok, or a failure of the
\* fetch or of a read
HkError ==
  /\ hook.stream = "open"
  /\ \E eager \in EagerChoices(hook) :
       LET h == [hook EXCEPT !.stream = "error", !.rafId = FALSE,
                             !.chunkBuffer = 0, !.typewriterInterval = FALSE,
                             !.pendingText = 0, !.displayedText = 0,
                             !.streamingComplete = FALSE,
                             !.finalMessage = FALSE]
       IN  hook' = [h EXCEPT !.queue = setMessages(h,
                                Update("remove", hook.sends, 0), eager),
                             !.streamingMessageIdRef = NoId,
                             !.error = TRUE, !.lanes = TRUE,
                             !.isStreaming = FALSE, !.isLoading = FALSE]
  /\ UNCHANGED hookOthers

\* the response body ends without a done or an error event: the read loop
\* of the ApiService breaks and no callback is called
HkStreamEnds ==
  /\ hook.stream = "open"
  /\ hook' = [hook EXCEPT !.stream = "ended"]
  /\ UNCHANGED hookOthers

\* React renders the component: the queued updates are run in order
HkRender ==
  /\ hook.lanes
  /\ hook' = [hook EXCEPT !.messages = renderMessages(hook.queue,
                                                     hook.messages, hook),
                          !.queue = <<>>, !.lanes = FALSE]
  /\ UNCHANGED hookOthers

HookVariants == {NoHook, [NoHook EXCEPT !.variant = "typewriter"]}

InitHook ==
  /\ Init!1 /\ Init!2 /\ Init!3 /\ Init!4 /\ Init!5 /\ Init!6 /\ Init!7
  /\ Init!8 /\ Init!9 /\ Init!10 /\ Init!11 /\ Init!12 /\ Init!13 /\ Init!15
  /\ mg = NoMigration /\ gs = NoStream /\ api = NoApiCall
  /\ ex = NoExtraction /\ rd = NoDelay /\ sse = NoReader
  /\ hook \in HookVariants

NextHook ==
  \/ HkSendMessage
  \/ HkChunk
  \/ HkFlushBuffer
  \/ HkTypewriterTick
  \/ HkDone
  \/ HkError
  \/ HkStreamEnds
  \/ HkRender

\* the browser runs a requested animation frame and the ticks of a running
\* interval, and React renders a component with pending updates
SpecHook ==
  /\ InitHook /\ [][NextHook]_vars
  /\ WF_vars(HkFlushBuffer) /\ WF_vars(HkTypewriterTick) /\ WF_vars(HkRender)

(* ------------------------ properties of the hook ---------------------- *)
\* the send in progress has received no chunk and no terminal event yet
WaitingForFirstChunk == hook.stream = "open" /\ hook.chunks = 0

\* every update has been rendered and no timer of the hook is running
HookQuiet ==
  /\ ~hook.lanes /\ hook.queue = <<>>
  /\ ~hook.rafId /\ ~hook.typewriterInterval

PlaceholderOf(n) == {i \in DOMAIN hook.messages :
                       hook.messages[i].id = "streaming"
                       /\ hook.messages[i].send = n}

FinalMessageOf(n) == {i \in DOMAIN hook.messages :
                        hook.messages[i].id = "final"
                        /\ hook.messages[i].send = n}

\* after sendMessage starts isLoading is true and isStreaming is false, and
\* isStreaming is true only after a chunk of the send in progress
FlagsFollowStreamingFlow ==
  /\ WaitingForFirstChunk => hook.isLoading /\ ~hook.isStreaming
  /\ hook.isStreaming => hook.chunks > 0

\* after done or error the hook eventually shows isLoading = false and
\* isStreaming = false
FlagsEventuallyReset ==
  hook.stream \in {"done", "error"} ~> ~hook.isLoading /\ ~hook.isStreaming

\* C27: the hook follows the streaming flow: after a send starts isLoading
\* is true and isStreaming false, isStreaming is true only after the first
\* chunk, and once the stream is done and the hook has come to rest both are
\* false and the placeholder of the send has been replaced by the final
\* message.
PlaceholderReplacedByFinalMessageOnDone ==
  /\ FlagsFollowStreamingFlow
  /\ hook.stream = "done" /\ HookQuiet =>
       /\ ~hook.isLoading /\ ~hook.isStreaming
       /\ PlaceholderOf(hook.sends) = {}
       /\ FinalMessageOf(hook.sends) # {}

(* ---------------- the correction prompt of the tool loop -------------- *)
\* a correction prompt has been built after the call of the k-th tool of
\* the list threw
PromptAfterToolFailure(k) ==
  /\ tl.pc = "correct" /\ tl.error = <<"tool", k>>
  /\ k \in DOMAIN tl.calls

\* the prompt names the first tool call of the list, with the error
PromptNamesFirstCall ==
  \A k \in 1 .. MaxCalls :
    PromptAfterToolFailure(k) =>
      /\ tl.prompt.toolName = tl.calls[1].toolName
      /\ tl.prompt.arguments = tl.calls[1].arguments
      /\ tl.prompt.error = <<"tool", k>>

\* C28: when the k-th tool call of the list is the first to fail, the
\* correction prompt carries the name and the arguments of that k-th call
\* and the error of that failure.
CorrectionPromptNamesFailingCall ==
  \A k \in 1 .. MaxCalls :
    PromptAfterToolFailure(k) =>
      /\ tl.prompt.toolName = tl.calls[k].toolName
      /\ tl.prompt.arguments = tl.calls[k].arguments
      /\ tl.prompt.error = <<"tool", k>>

(* --------------------------- extractToolCalls --------------------------
   The response text is a sequence of characters.  The literal TOOL_CALL:
   and each word are written as one element: the marker regex and the
   brace scan treat them as the code treats their characters.  No word
   begins with a letter that forms a JSON escape after a backslash, and no
   word is a JSON literal. *)
exOthers == <<model, handlerVars, gw, tl, cleanupDue, mg, deployment, gs,
              api, hook,
              rd,
              sse>>

Marker == "TOOL_CALL:"
Colon == ":"
LBrace == "{"
RBrace == "}"
Quote == "\""
Backslash == "\\"
Comma == ","
Space == " "
Digits == {"1"}
Words == {"search", "q", "nested", "unbalanced", "ok", "k", "x"}

\* the result of a parsing step: whether it succeeded, the index after the
\* text it consumed, and the value (written as a sequence: STR( chars ),
\* NUM( digits ), OBJ( key value ... ))
Parsed(pos, val) == [ok |-> TRUE, pos |-> pos, val |-> val]
SyntaxError == [ok |-> FALSE, pos |-> 0, val |-> <<>>]

RECURSIVE skipWhitespace(_, _)
\* while (jsonStart < response.length && /\s/.test(response[jsonStart]))
skipWhitespace(s, i) ==
  IF i <= Len(s) /\ s[i] = Space THEN skipWhitespace(s, i + 1) ELSE i

RECURSIVE wordEnd(_, _)
\* the index after the run of \w characters that starts at i
wordEnd(s, i) ==
  IF i <= Len(s) /\ s[i] \in Words \cup Digits THEN wordEnd(s, i + 1) ELSE i

RECURSIVE stringBody(_, _, _)
\* JSON.parse inside a string: up to the closing quote; \" and \\ are the
\* escapes of the alphabet, any other escape is a syntax error
stringBody(s, j, acc) ==
  IF j > Len(s) THEN SyntaxError
  ELSE IF s[j] = Quote
  THEN Parsed(j + 1, <<"STR(">> \o acc \o <<")">>)
  ELSE IF s[j] = Backslash
  THEN IF j + 1 <= Len(s) /\ s[j + 1] \in {Quote, Backslash}
       THEN stringBody(s, j + 2, Append(acc, s[j + 1]))
       ELSE SyntaxError
  ELSE stringBody(s, j + 1, Append(acc, s[j]))

RECURSIVE parseValue(_, _)
RECURSIVE parseMembers(_, _, _)
\* JSON.parse of the members of an object, from the quote of a key
parseMembers(s, j, acc) ==
  IF j > Len(s) \/ s[j] # Quote THEN SyntaxError
  ELSE
    LET key == stringBody(s, j + 1, <<>>)
        c == skipWhitespace(s, key.pos)
    IN  IF ~key.ok \/ c > Len(s) \/ s[c] # Colon THEN SyntaxError
        ELSE
          LET v == parseValue(s, skipWhitespace(s, c + 1))
              e == skipWhitespace(s, v.pos)
              members == acc \o key.val \o v.val
          IN  IF ~v.ok \/ e > Len(s) THEN SyntaxError
              ELSE IF s[e] = RBrace
              THEN Parsed(e + 1, Append(members, ")"))
              ELSE IF s[e] = Comma
              THEN parseMembers(s, skipWhitespace(s, e + 1), members)
              ELSE SyntaxError

\* JSON.parse of a value that starts at i: a string, a number or an object
parseValue(s, i) ==
  IF i > Len(s) THEN SyntaxError
  ELSE IF s[i] = Quote THEN stringBody(s, i + 1, <<>>)
  ELSE IF s[i] \in Digits
  THEN LET e == wordEnd(s, i)
       IN  IF \A k \in i .. e - 1 : s[k] \in Digits
           THEN Parsed(e, <<"NUM(">> \o SubSeq(s, i, e - 1) \o <<")">>)
           ELSE SyntaxError
  ELSE IF s[i] = LBrace
  THEN LET j == skipWhitespace(s, i + 1)
       IN  IF j <= Len(s) /\ s[j] = RBrace
           THEN Parsed(j + 1, <<"OBJ(", ")">>)
           ELSE parseMembers(s, j, <<"OBJ(">>)
  ELSE SyntaxError

\* JSON.parse(jsonStr): one value and nothing after it, or a SyntaxError
JSONparse(jsonStr) ==
  LET v == parseValue(jsonStr, skipWhitespace(jsonStr, 1))
  IN  IF v.ok /\ skipWhitespace(jsonStr, v.pos) = Len(jsonStr) + 1
      THEN v ELSE SyntaxError

\* toolCallMarkerRegex matches at m: TOOL_CALL: then \w+ then a colon
markerAt(s, m) ==
  /\ m <= Len(s) /\ s[m] = Marker
  /\ wordEnd(s, m + 1) > m + 1
  /\ wordEnd(s, m + 1) <= Len(s) /\ s[wordEnd(s, m + 1)] = Colon

RECURSIVE nextMarker(_, _)
\* toolCallMarkerRegex.exec(response) from lastIndex: the index of the next
\* match, or 0 (null)
nextMarker(s, lastIndex) ==
  IF lastIndex > Len(s) THEN 0
  ELSE IF markerAt(s, lastIndex) THEN lastIndex
  ELSE nextMarker(s, lastIndex + 1)

RECURSIVE matchingBrace(_, _, _)
\* the for loop that counts braces from jsonStart: the index of the brace
\* that brings the count back to zero, or 0 when the text ends first
matchingBrace(s, i, braceCount) ==
  IF i > Len(s) THEN 0
  ELSE IF s[i] = LBrace THEN matchingBrace(s, i + 1, braceCount + 1)
  ELSE IF s[i] = RBrace
  THEN IF braceCount - 1 = 0 THEN i
       ELSE matchingBrace(s, i + 1, braceCount - 1)
  ELSE matchingBrace(s, i + 1, braceCount)

\* what a call of extractToolCalls has produced so far
Extraction(toolCalls, threw) == [toolCalls |-> toolCalls, threw |-> threw]

\* a variant of the catch that lets the SyntaxError leave extractToolCalls
catchRethrows(r) == Extraction(r.toolCalls, TRUE)

\* catch (error) { console.error(...) }: the directive is skipped
catch(r) == r

RECURSIVE extractFrom(_, _, _)
\* the while loop of extractToolCalls, from the regex's lastIndex (the end
\* of the last marker, whatever the brace scan read after it)
extractFrom(s, lastIndex, r) ==
  LET m == nextMarker(s, lastIndex)
      colonIndex == wordEnd(s, m + 1) + 1
      toolName == SubSeq(s, m + 1, colonIndex - 2)
      jsonStart == skipWhitespace(s, colonIndex)
      jsonEnd == matchingBrace(s, jsonStart, 0)
      args == JSONparse(SubSeq(s, jsonStart, jsonEnd))
  IN  IF m = 0 \/ r.threw THEN r
      ELSE IF jsonStart > Len(s) \/ s[jsonStart] # LBrace
      THEN extractFrom(s, colonIndex, r)
      ELSE IF jsonEnd = 0
      THEN extractFrom(s, colonIndex, r)
      ELSE extractFrom(s, colonIndex,
                       IF args.ok
                       THEN Extraction(Append(r.toolCalls,
                                              ToolCall(toolName, args.val)),
                                       r.threw)
                       ELSE catch(r))

\* extractToolCalls(response)
extractToolCalls(response) == extractFrom(response, 1, Extraction(<<>>, FALSE))

\* a directive TOOL_CALL:<name>:<obj> of a response text; wellFormed says
\* that obj is a JSON object
Directive(name, obj, wellFormed) ==
  [name |-> name, obj |-> obj, wellFormed |-> wellFormed]

DirectiveText(d) == <<Marker, d.name, Colon>> \o d.obj

\* {"k":1}   {}   {"k":{"q":1}}   {"q":"{\"nested\":1}"}   {"q":"}"}
\* {"q":"{"}   {"q":"\\"}
WellFormedDirectives ==
  {Directive("ok", <<LBrace, Quote, "k", Quote, Colon, "1", RBrace>>, TRUE),
   Directive("ok", <<LBrace, RBrace>>, TRUE),
   Directive("ok", <<LBrace, Quote, "k", Quote, Colon, LBrace, Quote, "q",
                     Quote, Colon, "1", RBrace, RBrace>>, TRUE),
   Directive("search",
             <<LBrace, Quote, "q", Quote, Colon, Quote, LBrace, Backslash,
               Quote, "nested", Backslash, Quote, Colon, "1", RBrace, Quote,
               RBrace>>, TRUE),
   Directive("search", <<LBrace, Quote, "q", Quote, Colon, Quote, RBrace,
                         Quote, RBrace>>, TRUE),
   Directive("search", <<LBrace, Quote, "q", Quote, Colon, Quote, LBrace,
                         Quote, RBrace>>, TRUE),
   Directive("search", <<LBrace, Quote, "q", Quote, Colon, Quote, Backslash,
                         Backslash, Quote, RBrace>>, TRUE)}

\* TOOL_CALL:x:{unbalanced   TOOL_CALL:x:k   TOOL_CALL:x:{k}
\* TOOL_CALL:x:{"k":{"q":1}   TOOL_CALL:x:
MalformedDirectives ==
  {Directive("x", <<LBrace, "unbalanced">>, FALSE),
   Directive("x", <<"k">>, FALSE),
   Directive("x", <<LBrace, "k", RBrace>>, FALSE),
   Directive("x", <<LBrace, Quote, "k", Quote, Colon, LBrace, Quote, "q",
                    Quote, Colon, "1", RBrace>>, FALSE),
   Directive("x", <<>>, FALSE)}

Directives == WellFormedDirectives \cup MalformedDirectives

\* the directives of one response text
DirectiveLists ==
  UNION {[1 .. n -> Directives] : n \in 1 .. 3}

RECURSIVE ResponseText(_)
\* the response text: the directives, one per line of text
ResponseText(parts) ==
  IF parts = <<>> THEN <<>>
  ELSE IF Len(parts) = 1 THEN DirectiveText(parts[1])
  ELSE DirectiveText(parts[1]) \o <<Space>> \o ResponseText(Tail(parts))

\* extractToolCalls(response) is called and returns
ExExtractToolCalls ==
  /\ ex.pc = "idle" /\ ex.parts # <<>>
  /\ LET r == extractToolCalls(ex.response)
     IN  ex' = [ex EXCEPT !.pc = "done", !.toolCalls = r.toolCalls,
                          !.threw = r.threw]
  /\ UNCHANGED exOthers

InitExtract ==
  /\ Init!1 /\ Init!2 /\ Init!3 /\ Init!4 /\ Init!5 /\ Init!6 /\ Init!7
  /\ Init!8 /\ Init!9 /\ Init!10 /\ Init!11 /\ Init!12 /\ Init!13 /\ Init!15
  /\ mg = NoMigration /\ gs = NoStream /\ api = NoApiCall /\ hook = NoHook
  /\ rd = NoDelay
  /\ sse = NoReader
  /\ ex \in {[NoExtraction EXCEPT !.parts = parts,
                                  !.response = ResponseText(parts)] :
               parts \in DirectiveLists}

NextExtract == ExExtractToolCalls

SpecExtract == InitExtract /\ [][NextExtract]_vars

(* -------------------- properties of extractToolCalls ------------------ *)
\* the call a well-formed directive stands for
CallOf(d) == ToolCall(<<d.name>>, JSONparse(d.obj).val)

\* the extraction has returned for a text with the directive d at place i
ExtractedWith(i, d) ==
  ex.pc = "done" /\ i \in DOMAIN ex.parts /\ ex.parts[i] = d

\* C29: for every directive of the text whose object is a JSON object,
\* also one whose string values hold braces, balanced or not, or escaped
\* quotes, the extraction returns a call with the directive's name and the
\* parsed object as arguments.
EveryJsonObjectDirectiveExtracted ==
  \A d \in WellFormedDirectives : \A i \in 1 .. 3 :
    ExtractedWith(i, d) => CallOf(d) \in Range(ex.toolCalls)

\* the braces of the directive's object, counted without regard to strings,
\* balance for the first time at the end of the object
BracesBalanceAtEnd(d) == matchingBrace(d.obj, 1, 0) = Len(d.obj)

\* the directives are what they are called: the object of a well-formed one
\* is valid JSON, that of a malformed one is not
DirectivesAreWhatTheySay ==
  \A d \in Directives : JSONparse(d.obj).ok = d.wellFormed

\* the directives for which C29 does hold: those whose braces balance at
\* the end when strings are not told apart, whatever stands around them
BalancedObjectDirectiveExtracted ==
  \A d \in WellFormedDirectives : \A i \in 1 .. 3 :
    ExtractedWith(i, d) /\ BracesBalanceAtEnd(d) =>
      CallOf(d) \in Range(ex.toolCalls)

\* the well-formed and the malformed directives of the text, in order
WellFormedParts == SelectSeq(ex.parts, LAMBDA d : d.wellFormed)
MalformedParts == SelectSeq(ex.parts, LAMBDA d : ~d.wellFormed)

\* C30: extractToolCalls does not throw; in a text with a malformed
\* directive (no opening brace, unbalanced braces, invalid JSON) the
\* malformed directive contributes no call and prevents no extraction: the
\* calls are those of the text without its malformed directives, which for
\* well-formed directives are their calls in order of appearance; a text of
\* malformed directives only, such as TOOL_CALL:x:{unbalanced alone, yields
\* no call.
MalformedDirectivesAreSkipped ==
  ex.pc = "done" /\ MalformedParts # <<>> =>
    /\ ~ex.threw
    /\ ex.toolCalls = extractToolCalls(ResponseText(WellFormedParts)).toolCalls
    /\ (\A i \in DOMAIN WellFormedParts :
          BracesBalanceAtEnd(WellFormedParts[i])) =>
         ex.toolCalls = [i \in DOMAIN WellFormedParts |->
                           CallOf(WellFormedParts[i])]
    /\ WellFormedParts = <<>> => ex.toolCalls = <<>>

\* witness: a text with the unbalanced directive between two well-formed
\* ones, the first with braces and escaped quotes inside a string, has
\* yielded the two calls in order
TwoCallsAroundUnbalancedDirective ==
  /\ ex.pc = "done" /\ Len(ex.parts) = 3 /\ ~ex.threw
  /\ ex.parts[2] = Directive("x", <<LBrace, "unbalanced">>, FALSE)
  /\ ex.parts[1].name = "search" /\ ex.parts[3].name = "ok"
  /\ Backslash \in Range(ex.parts[1].obj)
  /\ ex.toolCalls = <<CallOf(ex.parts[1]), CallOf(ex.parts[3])>>

(* ------------- both entries of the gateway, side by side -------------- *)
NextBothGateways ==
  \/ NextGateway
  \/ NextStream

SpecBothGateways == InitGateway /\ [][NextBothGateways]_vars

\* complete() was called with a history that does not end with a user message
CompleteWithInvalidHistory == gw.pc # "idle" /\ ~LastIsUser(gw.messages)

\* streamComplete was called with such a history
StreamWithInvalidHistory == gs.pc # "idle" /\ ~LastIsUser(gs.messages)

\* the call has failed without an upstream call, a retry or a delay
FailedBeforeUpstream(g) ==
  g.pc = "threw" /\ g.invocations = 0

\* C31 as stated: a call of complete() or streamComplete with a history that
\* is empty or does not end with a user message fails with the
\* invalid-history precondition error, with no upstream call and, for
\* complete(), no retry and no delay.
InvalidHistoryFailsWithPreconditionError ==
  /\ CompleteWithInvalidHistory =>
       /\ FailedBeforeUpstream(gw) /\ gw.attempt = 0 /\ gw.delays = <<>>
       /\ gw.error = "Last message must be from user"
  /\ StreamWithInvalidHistory =>
       /\ FailedBeforeUpstream(gs) /\ gs.upstream = <<>>
       /\ gs.error = "Last message must be from user"

\* C31 amended: such a call fails with no upstream call, no retry and no
\* delay; the error is the precondition error when the history is not
\* empty, and the TypeError of reading the role of a missing message when
\* the history is empty.
InvalidHistoryFailsBeforeUpstream ==
  /\ CompleteWithInvalidHistory =>
       /\ FailedBeforeUpstream(gw) /\ gw.attempt = 0 /\ gw.delays = <<>>
       /\ gw.outcomes = <<>>
       /\ gw.error = (IF gw.messages = <<>>
                      THEN "Cannot read properties of undefined (reading 'role')"
                      ELSE "Last message must be from user")
  /\ StreamWithInvalidHistory =>
       /\ FailedBeforeUpstream(gs) /\ gs.upstream = <<>> /\ gs.yielded = <<>>
       /\ gs.error = (IF gs.messages = <<>>
                      THEN "Cannot read properties of undefined (reading 'role')"
                      ELSE "Last message must be from user")

\* witness: complete() has failed on a history that ends with an assistant
\* message, and streamComplete on an empty history
BothEntriesRejectedAHistory ==
  /\ gw.pc = "threw" /\ Len(gw.messages) = 2
  /\ gw.messages[2].role = ASSISTANT /\ gw.invocations = 0
  /\ gs.pc = "threw" /\ gs.messages = <<>> /\ gs.invocations = 0

(* ------------------------ calculateRetryDelay ------------------------- *)
rdOthers == <<model, handlerVars, gw, tl, cleanupDue, mg, deployment, gs,
              api, hook, ex,
              sse>>

\* the attempt numbers followed
DelayAttempts == 0 .. 15

\* values of Math.random() * 1000, which is at least 0 and less than 1000
JitterSamples == {0, 1, 250, 499, 500, 750, MaxJitter - 2, MaxJitter - 1}

\* calculateRetryDelay(0) with a value of the jitter
RdFirstAttempt ==
  \E jitter \in JitterSamples :
    /\ rd.pc = "idle"
    /\ rd' = [pc |-> "done", attempt |-> 0, jitter |-> jitter,
              delay |-> calculateRetryDelay(0, jitter), previous |-> 0]
    /\ UNCHANGED rdOthers

\* calculateRetryDelay(attempt + 1) with the same value of the jitter
RdNextAttempt ==
  /\ rd.pc = "done" /\ rd.attempt + 1 \in DelayAttempts
  /\ rd' = [rd EXCEPT !.attempt = @ + 1, !.previous = rd.delay,
                      !.delay = calculateRetryDelay(rd.attempt + 1, rd.jitter)]
  /\ UNCHANGED rdOthers

NextDelay ==
  \/ RdFirstAttempt
  \/ RdNextAttempt

SpecDelay == Init /\ [][NextDelay]_vars

(* ------------------ properties of calculateRetryDelay ----------------- *)
Min(a, b) == IF a <= b THEN a ELSE b

\* C32: for every attempt number and every jitter of at least 0 and less
\* than 1000 ms, the retry delay is min(base * 2^attempt + jitter, 30000)
\* ms: it never exceeds 30 seconds, it is at least
\* min(base * 2^attempt, 30000), and for a fixed jitter it does not
\* decrease from one attempt to the next.
RetryDelayIsCappedBackoff ==
  rd.pc = "done" =>
    /\ rd.delay = Min(retryDelay * 2 ^ rd.attempt + rd.jitter, MaxRetryDelay)
    /\ rd.delay <= 30 * 1000
    /\ rd.delay >= Min(retryDelay * 2 ^ rd.attempt, MaxRetryDelay)
    /\ rd.previous <= rd.delay

\* witness: the delay has reached the cap after an attempt whose delay was
\* still below it, with the largest jitter
RetryDelayReachedTheCap ==
  /\ rd.pc = "done" /\ rd.jitter = MaxJitter - 1
  /\ rd.delay = MaxRetryDelay /\ rd.previous < MaxRetryDelay
  /\ rd.previous > 0

(* ------------- the error path of concurrent anonymous sends ----------- *)
\* the step is taken by the handler of the request in slot s
StepOf(s) == req'[s] # req[s]

\* C33: in every interleaving of anonymous sends, a step that removes a
\* message from an ephemeral chat is the error path of a request and
\* removes the user message that this request appended, never a message
\* appended by another request.
ErrorPathRemovesOnlyOwnMessage ==
  [][\A c \in DOMAIN anonHeap :
       Len(MessagesOf(c)') < Len(MessagesOf(c)) =>
         \E s \in Slots :
           /\ StepOf(s)
           /\ RemovesOwnMessage(MessagesOf(c), MessagesOf(c)', req[s].rid)
    ]_vars

(* ------------------ a removed chat and a send in flight --------------- *)
\* C34: an ephemeral chat that has been removed from the registry (it has
\* been created, and is not in the registry) is not in the registry after
\* any later step, also when a send that found it before the removal
\* completes afterwards.
RemovedChatNeverReturns ==
  [][\A c \in DOMAIN anonHeap :
       c \notin anonymousChats => c \notin anonymousChats']_vars

(* ------------- the history handed to a generation call ---------------- *)
\* the history `messages` ends with the message that request rid appended
EndsWithOwnMessage(messages, rid) ==
  /\ messages # <<>>
  /\ messages[Len(messages)].id = RequestMsgId(rid)

\* the step starts the generation of the REST send in slot s: it has read
\* the history of the chat and hands it to the tool loop or to the gateway
StartsGeneration(s) ==
  /\ req[s].kind = "sendMessage" /\ req[s].pc = "getMessages"
  /\ req'[s].pc \in {"gen", "mcp"}

\* the step is a retried gateway call of the anonymous send in slot s: the
\* call reads the message array of the chat object again
RetriesGeneration(s) ==
  /\ req[s].kind = "sendAnonymousMessage" /\ req[s].pc = "gen"
  /\ req'[s].pc = "gen" /\ req'[s].attempt = req[s].attempt + 1

\* C35: with sends to one chat in flight together, the history handed to
\* each generation call of a send with role 'user', the retried calls
\* included, ends with the user message that this send appended.
HistoryEndsWithOwnUserMessage ==
  [][\A s \in Slots :
       /\ StartsGeneration(s) /\ req[s].role = USER
            => EndsWithOwnMessage(req'[s].hist, req[s].rid)
       /\ RetriesGeneration(s) /\ req[s].role = USER
            => EndsWithOwnMessage(MessagesOf(req[s].chatId), req[s].rid)
    ]_vars

(* ------------- the conversation presented to the upstream model -------- *)
\* the system-instruction pair, then each non-system message of the history
\* once, in order, the last user message being the one that is sent
EachMessageOnce(messages) ==
  systemInstructionPair \o convertMessagesToHistory(messages)

\* C36: in an upstream generation call of complete() or streamComplete the
\* conversation presented to the upstream model is the system-instruction
\* pair followed by each non-system message of the passed history exactly
\* once, in order: the last user message is presented once.
UpstreamSeesEachMessageOnce ==
  /\ gw.pc = "upstream" => gw.conversation = EachMessageOnce(gw.messages)
  /\ gs.pc = "upstream" => gs.conversation = EachMessageOnce(gs.messages)

(* ------------- the terminal event of a streaming send request ---------- *)
IsTerminal(e) == e.type \in {"done", "error"}

\* the events are chunk events followed by one terminal event
ChunksThenOneTerminal(evs) ==
  /\ evs # <<>>
  /\ IsTerminal(evs[Len(evs)])
  /\ \A i \in 1 .. (Len(evs) - 1) : evs[i].type = "chunk"

\* C37: a streaming send request that has returned, on whichever path
\* (validation, chat not found, invalid model, persistence failure,
\* generation failure, success), has emitted chunk events followed by one
\* terminal event ('done' or 'error') and has closed the channel once; while
\* it has not returned it has emitted chunk events only and has not closed
\* the channel, so the close comes with the terminal event and no chunk
\* event follows it.
StreamEndsWithOneTerminalEvent ==
  \A s \in Slots :
    req[s].kind \in StreamKinds =>
      IF req[s].pc = "done"
      THEN ChunksThenOneTerminal(events[s]) /\ ended[s] = 1
      ELSE /\ \A i \in DOMAIN events[s] : events[s][i].type = "chunk"
           /\ ended[s] = 0

\* an authenticated streaming request wrote a chunk, failed to persist the
\* reply, wrote the error event and closed the channel
StreamsEndedOnFailurePaths ==
  \E s \in Slots :
    /\ req[s].kind = "sendMessageStream" /\ req[s].pc = "done"
    /\ req[s].failedAt = "persistAssistant"
    /\ Len(events[s]) = 2 /\ events[s][1].type = "chunk"
    /\ events[s][2].type = "error" /\ ended[s] = 1

(* ---------------- what makes the loop enter a correction --------------- *)
\* every tool call of the list has been executed and has succeeded; the
\* completion that interprets the results is awaited
AllToolsSucceeded == tl.pc = "exec" /\ tl.idx > Len(tl.calls)

\* the completion that interprets the results has failed in this run
InterpretationFailed == tl.error = <<"llm", 0>>

\* C38: the correction cycle is entered only when a Tool Provider call
\* throws: when every tool call has succeeded and the completion that
\* interprets the results fails, no correction is started, no correction
\* prompt is sent and no tool is executed again in that run.
CorrectionOnlyAfterToolFailure ==
  [][/\ AllToolsSucceeded => tl'.pc \notin {"correctContext", "correct"}
     /\ InterpretationFailed /\ tl'.pc # "context" =>
          /\ tl'.corrections = tl.corrections
          /\ tl'.toolRuns = tl.toolRuns]_vars

(* ------------------- the frontend's reader of a stream ------------------
   ApiService.sendMessageStream and sendAnonymousMessageStream from the
   settling of fetch on.  The response body is a sequence of pieces of text:
   the prefix 'data:' and the space after it, the two halves of the JSON
   text of an event, and the line feed are one element each, so that a read
   may end inside the prefix, inside the JSON text and between the two line
   feeds that end an event. *)
sseOthers == <<model, handlerVars, gw, tl, cleanupDue, mg, deployment, gs,
               api, hook, ex, rd>>

\* the most events a followed response body holds
MaxEvents == 2

LF == "LF"
DataPrefix == "data:"
CloseBrace == "}"
\* the opening halves of the JSON texts of the events the backend writes
EventOpens == {"{chunk-a", "{chunk-b", "{done", "{error"}
TerminalOpens == {"{done", "{error"}

\* the callback an event is dispatched to, with its argument
CallbackOf ==
  "{chunk-a" :> "onChunk-a" @@ "{chunk-b" :> "onChunk-b"
    @@ "{done" :> "onDone" @@ "{error" :> "onError"
TerminalCallbacks == {"onDone", "onError", "onError-http", "onError-nobody",
                      "onError-thrown"}

\* `data: ${JSON.stringify(event)}\n\n` as the backend writes it
EventText(open) == <<DataPrefix, SP, open, CloseBrace, LF, LF>>

RECURSIVE BodyOf(_)
BodyOf(evs) ==
  IF evs = <<>> THEN <<>> ELSE EventText(Head(evs)) \o BodyOf(Tail(evs))

\* the sequences of events followed
EventSeqs ==
  UNION {[1 .. n -> EventOpens] : n \in 0 .. MaxEvents}

\* buffer.split('\n\n'): the pieces between the separators, scanned from
\* the left; `cur` is the piece being collected
RECURSIVE splitFrom(_, _)
splitFrom(text, cur) ==
  IF text = <<>> THEN <<cur>>
  ELSE IF Len(text) >= 2 /\ text[1] = LF /\ text[2] = LF
       THEN <<cur>> \o splitFrom(SubSeq(text, 3, Len(text)), <<>>)
       ELSE splitFrom(Tail(text), Append(cur, Head(text)))

split(text) == splitFrom(text, <<>>)

\* a variant that drops the piece after the last separator
popDropped(lines) == <<>>

\* lines.pop() || '': the piece after the last separator stays in the buffer
pop(lines) == lines[Len(lines)]

\* line.startsWith('data: ') and line.slice(6)
startsWithData(line) ==
  Len(line) >= 2 /\ line[1] = DataPrefix /\ line[2] = SP
slice6(line) == SubSeq(line, 3, Len(line))

\* JSON.parse of the text of an event: the event, or a SyntaxError
parseData(text) ==
  IF Len(text) = 2 /\ text[1] \in EventOpens /\ text[2] = CloseBrace
  THEN text[1]
  ELSE "SyntaxError"

\* the body of the loop over the lines, and of the processing of the
\* remaining buffer: the callback of the event's type is called; a line
\* without the prefix is passed over and a parse error is caught
dispatch(callbacks, line) ==
  IF startsWithData(line) /\ parseData(slice6(line)) # "SyntaxError"
  THEN Append(callbacks, CallbackOf[parseData(slice6(line))])
  ELSE callbacks

RECURSIVE dispatchAll(_, _)
dispatchAll(callbacks, lines) ==
  IF lines = <<>> THEN callbacks
  ELSE dispatchAll(dispatch(callbacks, Head(lines)), Tail(lines))

\* one iteration of the read loop with the decoded text `value`
readValue(r, value) ==
  LET lines == split(r.buffer \o value) IN
  [r EXCEPT !.buffer = pop(lines),
            !.callbacks = dispatchAll(@, SubSeq(lines, 1, Len(lines) - 1)),
            !.pos = @ + Len(value), !.reads = @ + 1]

\* the reader reports the end of the body: the remaining buffer is processed
readDone(r) ==
  [r EXCEPT !.pc = "returned", !.exit = "eof",
            !.callbacks = dispatch(@, r.buffer)]

\* fetch has settled with a response that is ok and has a body: the backend
\* has written the events `evs`, and the body ends after `cut` pieces of
\* their text (all of it, unless the connection closed early)
SseResponse ==
  \E evs \in EventSeqs :
    \E cut \in 0 .. Len(BodyOf(evs)) :
      /\ sse.pc = "idle"
      /\ sse' = [NoReader EXCEPT !.pc = "reading", !.events = evs,
                                 !.body = SubSeq(BodyOf(evs), 1, cut)]
      /\ UNCHANGED sseOthers

\* fetch has settled with a response that is not ok, or that has no body
SseNoStream ==
  \E exit \in {"http", "nobody"} :
    /\ sse.pc = "idle"
    /\ sse' = [NoReader EXCEPT !.pc = "returned", !.exit = exit,
                 !.callbacks = <<IF exit = "http" THEN "onError-http"
                                 ELSE "onError-nobody">>]
    /\ UNCHANGED sseOthers

\* reader.read() resolves with the next n pieces of the body
SseRead ==
  \E n \in 1 .. (Len(sse.body) - sse.pos) :
    /\ sse.pc = "reading"
    /\ sse' = readValue(sse, SubSeq(sse.body, sse.pos + 1, sse.pos + n))
    /\ UNCHANGED sseOthers

\* reader.read() resolves with done
SseReadDone ==
  /\ sse.pc = "reading" /\ sse.pos = Len(sse.body)
  /\ sse' = readDone(sse)
  /\ UNCHANGED sseOthers

\* reader.read() rejects (the connection is reset): the outer catch
SseReadThrows ==
  /\ sse.pc = "reading"
  /\ sse' = [sse EXCEPT !.pc = "returned", !.exit = "thrown",
                        !.callbacks = Append(@, "onError-thrown")]
  /\ UNCHANGED sseOthers

NextReader ==
  \/ SseResponse
  \/ SseNoStream
  \/ SseRead
  \/ SseReadDone
  \/ SseReadThrows

SpecReader == Init /\ [][NextReader]_vars

(* ------------------- properties of the stream reader ------------------ *)
\* the whole text of the events has arrived, none of it is missing
WholeBodyArrived == sse.body = BodyOf(sse.events)

\* the callbacks of a call that reads the whole body `body` in one read
SingleRead(body) ==
  readDone(readValue([NoReader EXCEPT !.pc = "reading", !.body = body],
                     body)).callbacks

\* one callback per event, in the order of the events
OneCallbackPerEvent(evs) == [i \in DOMAIN evs |-> CallbackOf[evs[i]]]

\* C39: for every sequence of well-formed events and every partition of
\* their text into successive reads, the callbacks of the reader are those
\* of a call that reads the whole text in one read, one callback per event
\* in the order of the events; while reads are outstanding the callbacks
\* made are a prefix of them.
ReaderIndependentOfSplit ==
  WholeBodyArrived =>
    /\ sse.pc = "reading" => IsPrefix(sse.callbacks, SingleRead(sse.body))
    /\ (sse.pc = "returned" /\ sse.exit = "eof") =>
         /\ sse.callbacks = SingleRead(sse.body)
         /\ sse.callbacks = OneCallbackPerEvent(sse.events)

\* two events arrived in three reads, so that a read ended inside an event,
\* and both were dispatched
TwoEventsReadInThreeReads ==
  /\ sse.pc = "returned" /\ sse.exit = "eof" /\ WholeBodyArrived
  /\ Len(sse.events) = 2 /\ sse.reads = 3
  /\ sse.callbacks = <<"onChunk-a", "onDone">>

\* the events are what a streaming handler of the backend writes: chunk
\* events, and a terminal event only as the last one
BackendWrote(evs) ==
  \A i \in 1 .. (Len(evs) - 1) : evs[i] \notin TerminalOpens

\* the positions of the terminal callbacks (onDone, onError)
TerminalCallbackAt(callbacks) ==
  {i \in DOMAIN callbacks : callbacks[i] \in TerminalCallbacks}

\* C40: a call of the stream reader that has returned has invoked exactly
\* one terminal callback (onDone or onError), after all its onChunk
\* callbacks, whatever the server did: also when the body closed without a
\* done or an error event, or with a final event that cannot be parsed.
ExactlyOneTerminalCallback ==
  (sse.pc = "returned" /\ BackendWrote(sse.events)) =>
    TerminalCallbackAt(sse.callbacks) = {Len(sse.callbacks)}
====
